---- MODULE Spec2Model ----
(***************************************************************************)
(* Verification model of lzma-rust2 0.13.0: the work pool that runs        *)
(* independent work units on worker threads (work_pool.rs, work_queue.rs,  *)
(* set_error in lib.rs), the multi-threaded readers and writers that drive *)
(* it (lzip/reader_mt.rs, lzip/writer_mt.rs, enc/lzma2_writer_mt.rs,       *)
(* xz/writer_mt.rs), and the unit framing of the single-threaded writers   *)
(* (enc/lzma2_writer.rs, xz/writer.rs).                                    *)
(***************************************************************************)
EXTENDS Integers, Sequences, FiniteSets, TLC

(***************************************************************************)
(* Bounds of the model.                                                    *)
(***************************************************************************)
\* largest num_workers a pool is configured with (worker thread ids 1..MaxThreads)
MaxThreads == 2
\* largest number of work units one pool is given
MaxWork == 3
\* largest configured unit (chunk / member / block) size, in bytes
MaxUnitSize == 2
\* largest number of bytes given to a single-threaded writer
MaxInput == 7
\* LZMA2_UNCOMPRESSED_LIMIT + MATCH_LEN_MAX (2 MiB), scaled down: the most
\* bytes one LZMA chunk holds
MaxLzmaChunk == 4
\* COMPRESSED_SIZE_MAX (64 KiB), scaled down: the most bytes one uncompressed
\* chunk holds
MaxRawChunk == 2
\* capacity of the encoder window for bytes not yet written out, scaled down
MaxWindow == 4
\* most bytes the range coder's buffer holds when a chunk is written, scaled
\* down
MaxRcSize == 2
\* most updates applied to one State
MaxOps == 5
\* most bits decoded with one range decoder
MaxBits == 3
\* most bytes the match finder has read ahead of the encoded position
MaxReadAhead == 1
\* most bytes the LZMA2 filter of an XZ block puts out, scaled down
MaxCompressed == 4

(***************************************************************************)
(* Program constants.                                                      *)
(***************************************************************************)
\* work_pool.rs:94  config.num_workers.clamp(1, 256)
MinWorkers == 1
MaxWorkersCap == 256
\* work_pool.rs:80  mpsc::sync_channel(1)
ChannelCapacity == 1
\* work_pool.rs:222  if self.work_queue.len() < 2
QueueLowWater == 2
\* writer_mt.rs:53  let num_work = u64::MAX, written -1 here: no index reaches it
U64Max == -1

Min(a, b) == IF a < b THEN a ELSE b
Max(a, b) == IF a > b THEN a ELSE b

\* work_pool.rs:94  u32::clamp
clamp(v, lo, hi) == Max(lo, Min(v, hi))

(***************************************************************************)
(* Values.                                                                 *)
(***************************************************************************)
\* Option<io::Error>::None of the error slot
NoErr == [kind |-> "none", idx |-> 0]
\* the error a worker raises while processing work unit i
WorkerErr(i) == [kind |-> "worker", idx |-> i]
\* work_pool.rs:127,132  io::ErrorKind::BrokenPipe "worker threads have shut down"
BrokenPipe == [kind |-> "broken_pipe", idx |-> 0]
\* writer_mt.rs:140  the producer of finish(): "no more work to dispatch"
NoMoreWorkErr == [kind |-> "no_more_work", idx |-> 0]
\* work_pool.rs:288  "work pool failed with unknown error"
UnknownErr == [kind |-> "unknown", idx |-> 0]
\* lzma2_reader_mt.rs:183  io::ErrorKind::InvalidData "invalid LZMA2 control byte"
InvalidDataErr == [kind |-> "invalid_data", idx |-> 0]
\* Option<u64>::None of last_sequence_id
NoneSeq == -1

\* what a pool call hands back to its caller
\* (start: the content of the error slot when the call started;
\*  from: whether a result came out of out_of_order_results or the channel)
RetNone(s) == [kind |-> "none", idx |-> 0, err |-> NoErr, start |-> s, from |-> "-"]
RetSome(i, s, f) == [kind |-> "some", idx |-> i, err |-> NoErr, start |-> s, from |-> f]
RetErr(e, s) == [kind |-> "err", idx |-> 0, err |-> e, start |-> s, from |-> "-"]
RetInit == [kind |-> "init", idx |-> 0, err |-> NoErr, start |-> NoErr, from |-> "-"]

VARIABLES
  \* ---- configuration of one pool and its client
  client,                  \* "reader" (LzipReaderMt), "writer" (LzipWriterMt,
                           \* Lzma2WriterMt, XzWriterMt), "lzma2" (Lzma2Writer),
                           \* "xz" (XzWriter), "xzmt" (XzWriterMt, byte level),
                           \* "xzreader" (XzReaderMt), "lzma2reader" (Lzma2ReaderMt),
                           \* "xzread" (XzReader and XzReaderMt over an input) or
                           \* the part a smaller specification drives
  num_workers,             \* WorkPool.num_workers
  num_work,                \* WorkPool.num_work
  option_size,             \* options.member_size / chunk_size / block_size
  dict_size,               \* options.lzma_options.dict_size
  unit_size,               \* member_size / chunk_size / block_size of the writer
  \* ---- WorkPool and WorkStealingQueue fields
  work_queue,              \* Inner.queue: sequence of (index, work)
  closed,                  \* Inner.closed
  chan,                    \* the result channel buffer
  rx_alive,                \* result_rx not yet dropped
  next_index_to_dispatch,
  next_index_to_return,
  last_sequence_id,
  out_of_order_results,    \* BTreeMap<u64, R> as a set of (index, result)
  shutdown_flag,
  error_store,
  state,
  active_workers,
  spawned,                 \* worker_handles.len()
  \* ---- worker threads
  wpc,                     \* position of each worker thread
  witem,                   \* the work unit / result a worker holds
  \* ---- controlling thread
  cpc,                     \* position of the controlling thread
  op,                      \* public operation in progress
  remaining,               \* remaining_buf.len() of write
  current_work_unit,       \* current_work_unit.len()
  accepted,                \* bytes accepted by write so far
  \* ---- history
  returned,                \* results handed to the caller, in order
  lastRet,                 \* what the last pool call returned
  callErr,                 \* error slot at the start of the pool call in progress
  stored,                  \* errors given to set_error by workers, in order
  surfaced,                \* errors returned to the caller so far
  units,                   \* work units dispatched, in order
  closedBy,                \* the public operation that dispatched each unit
  stashedEver,             \* indices ever put into out_of_order_results
  finishCalled,            \* WorkPool::finish has run in state Dispatching
  opRet,                   \* result of the last public writer/reader operation
  \* ---- single-threaded writers
  lzma2,                   \* the fields of an Lzma2Writer, or the input, the
                           \* current work unit and the units of an Lzma2ReaderMt
  xz,                      \* the fields of an XzWriter / the sink of an XzWriterMt,
                           \* or the fields of an XzReader / XzReaderMt with its input
  \* ---- decoders and header coding
  coder,                   \* State, RangeDecoder and one probability of an LZMA decoder,
                           \* or the fields of an LzmaWriter with its last call, or
                           \* the LZMACoder of an encoder and of the decoder of its output
  mbi,                     \* a value with its XZ multibyte encoding
  lzip                     \* the fields of an LzipReader and the input it reads

cfgVars == <<client, num_workers, num_work, option_size, dict_size, unit_size>>
poolVars == <<work_queue, closed, chan, rx_alive, next_index_to_dispatch,
              next_index_to_return, last_sequence_id, out_of_order_results,
              shutdown_flag, error_store, state, active_workers, spawned>>
workerVars == <<wpc, witem>>
ctlVars == <<cpc, op, remaining, current_work_unit, accepted>>
histVars == <<returned, lastRet, callErr, stored, surfaced, units, closedBy, stashedEver,
             finishCalled, opRet>>
swVars == <<lzma2, xz, coder, mbi, lzip>>
vars == <<cfgVars, poolVars, workerVars, ctlVars, histVars, swVars>>

Threads == 1..MaxThreads
\* a work unit (and its result): sequence index and the input bytes it holds
NoItem == [idx |-> -1, off |-> 0, len |-> 0]
Item(i, o, l) == [idx |-> i, off |-> o, len |-> l]

(***************************************************************************)
(* lib.rs: set_error                                                       *)
(***************************************************************************)
\* new content of the error slot: only an empty slot takes the error
set_error(slot, error) == IF slot = NoErr THEN error ELSE slot

(***************************************************************************)
(* work_queue.rs                                                           *)
(***************************************************************************)
\* the queue mutex is held by a worker between its failed pop and its wait
MutexFree == \A w \in Threads : wpc[w] # "prewait"

\* WorkStealingQueue::len
queue_len == Len(work_queue)

\* condvar.notify_one after a push: one waiting worker, if any, is woken
notify_one(pcs) ==
  IF \E v \in Threads : pcs[v] = "sleeping"
    THEN {[pcs EXCEPT ![v] = "steal"] : v \in {u \in Threads : pcs[u] = "sleeping"}}
    ELSE {pcs}

\* condvar.notify_all of close(): every waiting worker is woken
notify_all(pcs) == [w \in Threads |-> IF pcs[w] = "sleeping" THEN "steal" ELSE pcs[w]]

\* LzipWriterMt::new, Lzma2WriterMt::new, XzWriterMt::new:
\*   member_size.get().max(options.lzma_options.dict_size as u64)
effective_size(size, dict) == Max(size, dict)

(***************************************************************************)
(* WorkPool::new followed by the construction of its client                *)
(***************************************************************************)
\* WorkPool::new: the fields of a new pool, its first worker spawned
PoolNew ==
  /\ work_queue = <<>>
  /\ closed = FALSE
  /\ chan = <<>>
  /\ rx_alive = TRUE
  /\ next_index_to_dispatch = 0
  /\ next_index_to_return = 0
  /\ last_sequence_id = NoneSeq
  /\ out_of_order_results = {}
  /\ shutdown_flag = FALSE
  /\ error_store = NoErr
  /\ state = "Dispatching"
  /\ active_workers = 0
  /\ spawned = 1
  /\ wpc = [w \in Threads |-> IF w = 1 THEN "top" ELSE "unspawned"]
  /\ witem = [w \in Threads |-> NoItem]

\* the controlling thread has made no call yet
ClientNew ==
  /\ cpc = "idle"
  /\ op = "none"
  /\ remaining = 0
  /\ current_work_unit = 0
  /\ accepted = 0
  /\ returned = <<>>
  /\ lastRet = RetInit
  /\ callErr = NoErr
  /\ stored = <<>>
  /\ surfaced = {}
  /\ units = <<>>
  /\ closedBy = <<>>
  /\ stashedEver = {}
  /\ finishCalled = FALSE
  /\ opRet = [op |-> "none", ok |-> TRUE]

\* Lzma2Writer::new without a preset dictionary (marks: the places in inner
\* at which start_independent_chunk has run; rc_size, data_size: the
\* compressed_size and uncompressed_size the last write_chunk started from)
Lzma2New ==
  [pending_size |-> 0, uncompressed_size |-> 0, lzma_uncompressed_size |-> 0,
   dict_reset_needed |-> TRUE, state_reset_needed |-> TRUE, props_needed |-> TRUE,
   force_independent_chunk |-> FALSE, inner |-> <<>>, marks |-> {},
   rc_size |-> 0, data_size |-> 0]

\* XzWriter::new with the check type check: the sink is wrapped in a
\* CountingWriter, no LZMA2 filter chain yet
XzNew(check) ==
  [check_type |-> check, writer |-> "Counting", bytes_written |-> 0,
   index_records |-> <<>>, block_uncompressed_size |-> 0, header_written |-> FALSE,
   current_block_start_pos |-> 0, current_block_header_size |-> 0, out |-> <<>>]

\* no decoder and no header coding in use
NoCoder == [pc |-> "unused"]
NoMbi == [pc |-> "unused"]
NoLzip == [pc |-> "unused"]
DecodersNew == coder = NoCoder /\ mbi = NoMbi /\ lzip = NoLzip

(***************************************************************************)
(* WorkPool::new followed by the construction of its client                *)
(***************************************************************************)
InitPool ==
  /\ client \in {"reader", "writer"}
  /\ \E cfg \in 0..MaxThreads : num_workers = clamp(cfg, MinWorkers, MaxWorkersCap)
  /\ num_work \in IF client = "reader" THEN 1..MaxWork ELSE {U64Max}
  /\ option_size \in IF client = "writer" THEN 1..MaxUnitSize ELSE {1}
  /\ dict_size \in IF client = "writer" THEN 1..MaxUnitSize ELSE {1}
  /\ unit_size = effective_size(option_size, dict_size)
  /\ PoolNew
  /\ ClientNew
  /\ lzma2 = Lzma2New
  /\ xz = XzNew("Crc32")
  /\ DecodersNew

(***************************************************************************)
(* worker_thread_logic (lzip/reader_mt.rs, lzip/writer_mt.rs,              *)
(* enc/lzma2_writer_mt.rs, xz/writer_mt.rs) with WorkerHandle::steal       *)
(***************************************************************************)
\* while !shutdown_flag.load(..)
WorkerLoopTop(w) ==
  /\ wpc[w] = "top"
  /\ wpc' = [wpc EXCEPT ![w] = IF shutdown_flag THEN "exited" ELSE "steal"]
  /\ UNCHANGED <<witem, cfgVars, swVars, poolVars, ctlVars, histVars>>

\* steal: with the queue locked, pop_front, else return None when closed,
\* else go on to wait with the lock still held
WorkerStealCheck(w) ==
  /\ wpc[w] = "steal"
  /\ MutexFree
  /\ IF work_queue # <<>>
       THEN /\ witem' = [witem EXCEPT ![w] = Head(work_queue)]
            /\ work_queue' = Tail(work_queue)
            /\ wpc' = [wpc EXCEPT ![w] = "got"]
       ELSE /\ wpc' = [wpc EXCEPT ![w] = IF closed THEN "exited" ELSE "prewait"]
            /\ UNCHANGED <<witem, work_queue>>
  /\ UNCHANGED <<closed, chan, rx_alive, next_index_to_dispatch, next_index_to_return,
                 last_sequence_id, out_of_order_results, shutdown_flag, error_store,
                 state, active_workers, spawned>>
  /\ UNCHANGED <<cfgVars, swVars, ctlVars, histVars>>

\* condvar.wait(queue): releases the lock and sleeps until notified
WorkerWait(w) ==
  /\ wpc[w] = "prewait"
  /\ wpc' = [wpc EXCEPT ![w] = "sleeping"]
  /\ UNCHANGED <<witem, cfgVars, swVars, poolVars, ctlVars, histVars>>

\* std::sync::Condvar::wait may return without a notification
WorkerSpuriousWake(w) ==
  /\ wpc[w] = "sleeping"
  /\ wpc' = [wpc EXCEPT ![w] = "steal"]
  /\ UNCHANGED <<witem, cfgVars, swVars, poolVars, ctlVars, histVars>>

\* Some(work) => active_workers.fetch_add(1)
WorkerGotWork(w) ==
  /\ wpc[w] = "got"
  /\ active_workers' = active_workers + 1
  /\ wpc' = [wpc EXCEPT ![w] = "work"]
  /\ UNCHANGED <<work_queue, closed, chan, rx_alive, next_index_to_dispatch,
                 next_index_to_return, last_sequence_id, out_of_order_results,
                 shutdown_flag, error_store, state, spawned>>
  /\ UNCHANGED <<witem, cfgVars, swVars, ctlVars, histVars>>

\* the unit is processed; the result is ready to be sent
WorkerProcessOk(w) ==
  /\ wpc[w] = "work"
  /\ wpc' = [wpc EXCEPT ![w] = "send"]
  /\ UNCHANGED <<witem, cfgVars, swVars, poolVars, ctlVars, histVars>>

\* Err(error) => active_workers.fetch_sub(1); set_error(..); return
WorkerProcessErr(w) ==
  /\ wpc[w] = "work"
  /\ active_workers' = active_workers - 1
  /\ wpc' = [wpc EXCEPT ![w] = "seterr"]
  /\ UNCHANGED <<work_queue, closed, chan, rx_alive, next_index_to_dispatch,
                 next_index_to_return, last_sequence_id, out_of_order_results,
                 shutdown_flag, error_store, state, spawned>>
  /\ UNCHANGED <<witem, cfgVars, swVars, ctlVars, histVars>>

WorkerSetError(w) ==
  /\ wpc[w] = "seterr"
  /\ error_store' = set_error(error_store, WorkerErr(witem[w].idx))
  /\ shutdown_flag' = TRUE
  /\ stored' = Append(stored, WorkerErr(witem[w].idx))
  /\ wpc' = [wpc EXCEPT ![w] = "exited"]
  /\ UNCHANGED <<work_queue, closed, chan, rx_alive, next_index_to_dispatch,
                 next_index_to_return, last_sequence_id, out_of_order_results,
                 state, active_workers, spawned>>
  /\ UNCHANGED <<witem, cfgVars, swVars, ctlVars>>
  /\ UNCHANGED <<returned, lastRet, callErr, surfaced, units, closedBy, stashedEver, finishCalled, opRet>>

\* a send that leaves the counter alone when the receiver is gone
WorkerSendFailedKeepsCount(w) ==
  /\ wpc[w] = "send"
  /\ IF ~rx_alive
       THEN /\ wpc' = [wpc EXCEPT ![w] = "exited"]
            /\ UNCHANGED chan
       ELSE /\ Len(chan) < ChannelCapacity
            /\ chan' = Append(chan, witem[w])
            /\ wpc' = [wpc EXCEPT ![w] = "sent"]
  /\ UNCHANGED <<work_queue, closed, rx_alive, next_index_to_dispatch,
                 next_index_to_return, last_sequence_id, out_of_order_results,
                 shutdown_flag, error_store, state, active_workers, spawned>>
  /\ UNCHANGED <<witem, cfgVars, swVars, ctlVars, histVars>>

\* result_tx.send((index, result)): blocks while the buffer is full, fails
\* once the receiver is gone
WorkerSend(w) ==
  /\ wpc[w] = "send"
  /\ IF ~rx_alive
       THEN /\ active_workers' = active_workers - 1
            /\ wpc' = [wpc EXCEPT ![w] = "exited"]
            /\ UNCHANGED chan
       ELSE /\ Len(chan) < ChannelCapacity
            /\ chan' = Append(chan, witem[w])
            /\ wpc' = [wpc EXCEPT ![w] = "sent"]
            /\ UNCHANGED active_workers
  /\ UNCHANGED <<work_queue, closed, rx_alive, next_index_to_dispatch,
                 next_index_to_return, last_sequence_id, out_of_order_results,
                 shutdown_flag, error_store, state, spawned>>
  /\ UNCHANGED <<witem, cfgVars, swVars, ctlVars, histVars>>

\* active_workers.fetch_sub(1) at the end of the loop body
WorkerSent(w) ==
  /\ wpc[w] = "sent"
  /\ active_workers' = active_workers - 1
  /\ wpc' = [wpc EXCEPT ![w] = "top"]
  /\ UNCHANGED <<work_queue, closed, chan, rx_alive, next_index_to_dispatch,
                 next_index_to_return, last_sequence_id, out_of_order_results,
                 shutdown_flag, error_store, state, spawned>>
  /\ UNCHANGED <<witem, cfgVars, swVars, ctlVars, histVars>>

(***************************************************************************)
(* work_pool.rs: the calls of the controlling thread                       *)
(***************************************************************************)
\* the clients that read: their public call is read, which returns after one
\* call of get_result / get_next_uncompressed_chunk
IsReader == client \in {"reader", "xzreader", "lzma2reader"}

\* a pool that hands out every received result at once
is_next_any(seq, next) == TRUE

\* seq == self.next_index_to_return
is_next(seq, next) == seq = next

\* a pool that never looks into the error slot
stored_error_ignored(slot) == FALSE

\* if let Some(err) = self.error_store.lock().unwrap().take()
stored_error(slot) == slot # NoErr

\* a get_result that dispatches whatever the queue holds
queue_is_short_always(qlen) == TRUE

\* get_result: if self.work_queue.len() < 2
queue_is_short(qlen) == qlen < QueueLowWater

\* the queue has room for a dispatch: WorkPool::get_result asks len() < 2,
\* XzReaderMt and Lzma2ReaderMt ask work_queue.is_empty()
queue_has_room(qlen) ==
  IF client \in {"xzreader", "lzma2reader"} THEN qlen = 0 ELSE queue_is_short(qlen)

\* out_of_order_results.get(&next_index_to_return)
buffered(next) == {r \in out_of_order_results : r.idx = next}

\* next_index >= self.num_work  ("No more members to dispatch")
no_more_work(next_index) == num_work # U64Max /\ next_index >= num_work

\* a finish that takes the index before the last
last_index_short(next_dispatch) == Max(next_dispatch - 2, 0)

\* finish(): Some(self.next_index_to_dispatch.saturating_sub(1))
last_index(next_dispatch) == Max(next_dispatch - 1, 0)

\* where the controlling thread continues after a pool call has returned
AfterSome(site) ==
  IF site \in {"gr_top", "gr_match", "gr_recv"}
    THEN (IF IsReader THEN "idle" ELSE "gr_top")
    ELSE site
AfterErr == IF client = "writer" /\ op = "finish" THEN "drop1" ELSE "idle"
AfterNone(site) ==
  CASE site = "send_drain1" -> "send_dispatch"
    [] site = "send_drain2" ->
         (CASE op = "write" -> "w_drain" [] op = "flush" -> "fl_drain" [] OTHER -> "fin_check")
    [] site = "w_drain" -> IF remaining > 0 THEN "w_loop" ELSE "idle"
    [] site = "fl_drain" -> "idle"
    [] OTHER -> IF IsReader THEN "idle" ELSE "drop1"

\* the public operation ends when the controlling thread goes back to idle or
\* on to the drop of a consumed writer
OpEnds(next, ok) ==
  IF next \in {"idle", "drop1"}
    THEN op' = "none" /\ opRet' = [op |-> op, ok |-> ok]
    ELSE UNCHANGED <<op, opRet>>

\* the call returns Ok(Some(result)); es is the error slot it leaves behind
ReturnSome(site, item, startErr, es, from) ==
  /\ returned' = Append(returned, item)
  /\ lastRet' = RetSome(item.idx, startErr, from)
  /\ cpc' = AfterSome(site)
  /\ callErr' = es
  /\ OpEnds(AfterSome(site), TRUE)
  /\ UNCHANGED <<surfaced>>

\* the call returns Ok(None)
ReturnNone(site, startErr, es) ==
  /\ lastRet' = RetNone(startErr)
  /\ cpc' = AfterNone(site)
  /\ callErr' = es
  /\ OpEnds(AfterNone(site), TRUE)
  /\ UNCHANGED <<returned, surfaced>>

\* the call returns Err(e)
ReturnErr(e, startErr, es) ==
  /\ lastRet' = RetErr(e, startErr)
  /\ surfaced' = surfaced \cup {e}
  /\ cpc' = AfterErr
  /\ callErr' = es
  /\ OpEnds(AfterErr, FALSE)
  /\ UNCHANGED <<returned>>

\* a result taken from the channel: returned when it is the next in
\* sequence, stashed otherwise
Received(msg, site, startErr, onStash) ==
  IF is_next(msg.idx, next_index_to_return)
    THEN /\ next_index_to_return' = next_index_to_return + 1
         /\ UNCHANGED <<out_of_order_results, stashedEver>>
         /\ ReturnSome(site, msg, startErr, error_store, "channel")
    ELSE /\ out_of_order_results' = out_of_order_results \cup {msg}
         /\ stashedEver' = stashedEver \cup {msg.idx}
         /\ UNCHANGED next_index_to_return
         /\ onStash

\* WorkPool::try_get_result, called by drain_available_results and flush of
\* the multi-threaded writers
try_get_result(site) ==
  /\ cpc = site
  /\ IF buffered(next_index_to_return) # {}
       THEN /\ \E r \in buffered(next_index_to_return) :
                 /\ out_of_order_results' = out_of_order_results \ {r}
                 /\ ReturnSome(site, r, error_store, error_store, "buffer")
            /\ next_index_to_return' = next_index_to_return + 1
            /\ UNCHANGED <<error_store, state, chan, stashedEver>>
       ELSE IF stored_error(error_store)
         THEN /\ error_store' = NoErr
              /\ state' = "Error"
              /\ ReturnErr(error_store, error_store, NoErr)
              /\ UNCHANGED <<out_of_order_results, next_index_to_return, chan, stashedEver>>
         ELSE IF chan # <<>>
           THEN /\ chan' = Tail(chan)
                /\ Received(Head(chan), site, error_store,
                            ReturnNone(site, error_store, error_store))
                /\ UNCHANGED <<error_store, state>>
           ELSE /\ ReturnNone(site, error_store, error_store)
                /\ UNCHANGED <<out_of_order_results, next_index_to_return, chan, stashedEver,
                               error_store, state>>
  /\ UNCHANGED <<work_queue, closed, rx_alive, next_index_to_dispatch, last_sequence_id,
                 shutdown_flag, active_workers, spawned>>
  /\ UNCHANGED <<cfgVars, swVars, workerVars, remaining, current_work_unit, accepted>>
  /\ UNCHANGED <<stored, units, closedBy, finishCalled>>

\* the work item the producer closure yields for index i: the member i of the
\* reader, the bytes taken from current_work_unit by the writers
producer(i) ==
  IF IsReader THEN Item(i, i, 1)
  ELSE Item(i, accepted - current_work_unit, current_work_unit)

\* a spawn test that forgets the limit on the number of workers
should_spawn_uncapped(qlen, active, nspawned) == qlen > 0 /\ active = nspawned

\* maybe_spawn_worker: queue_len > 0 && active_workers == spawned_workers
\*                     && spawned_workers < self.num_workers
should_spawn(qlen, active, nspawned) ==
  qlen > 0 /\ active = nspawned /\ nspawned < num_workers

\* second half of dispatch_next_work: maybe_spawn_worker, then
\* next_index_to_dispatch += 1
dispatch_spawn(site, next) ==
  /\ cpc = site
  /\ MutexFree
  /\ IF should_spawn(queue_len, active_workers, spawned)
       THEN /\ spawned' = spawned + 1
            /\ wpc' = [wpc EXCEPT ![spawned + 1] = "top"]
       ELSE UNCHANGED <<spawned, wpc>>
  /\ next_index_to_dispatch' = next_index_to_dispatch + 1
  /\ cpc' = next
  /\ UNCHANGED <<work_queue, closed, chan, rx_alive, next_index_to_return,
                 last_sequence_id, out_of_order_results, shutdown_flag, error_store,
                 state, active_workers>>
  /\ UNCHANGED <<cfgVars, swVars, witem, op, remaining, current_work_unit, accepted, histVars>>

\* WorkPool::get_result, top of the loop: an already received result comes
\* first, then the stored error
GetResultTop ==
  /\ cpc = "gr_top"
  /\ IF buffered(next_index_to_return) # {}
       THEN /\ \E r \in buffered(next_index_to_return) :
                 /\ out_of_order_results' = out_of_order_results \ {r}
                 /\ ReturnSome("gr_top", r, callErr, error_store, "buffer")
            /\ next_index_to_return' = next_index_to_return + 1
            /\ UNCHANGED <<error_store, state, stashedEver>>
       ELSE IF stored_error(error_store)
         THEN /\ error_store' = NoErr
              /\ state' = "Error"
              /\ ReturnErr(error_store, callErr, NoErr)
              /\ UNCHANGED <<out_of_order_results, next_index_to_return, stashedEver>>
         ELSE /\ cpc' = "gr_match"
              /\ UNCHANGED <<out_of_order_results, next_index_to_return, error_store,
                             state, op, histVars>>
  /\ UNCHANGED <<work_queue, closed, chan, rx_alive, next_index_to_dispatch,
                 last_sequence_id, shutdown_flag, active_workers, spawned>>
  /\ UNCHANGED <<cfgVars, swVars, workerVars, remaining, current_work_unit, accepted>>
  /\ UNCHANGED <<stored, units, closedBy, finishCalled>>

\* get_result, state Dispatching: try_recv, then dispatch while the queue is
\* short, else go on to the blocking recv
GetResultDispatching ==
  /\ cpc = "gr_match"
  /\ state = "Dispatching"
  /\ IF chan # <<>>
       THEN /\ chan' = Tail(chan)
            /\ Received(Head(chan), "gr_match", callErr,
                        cpc' = "gr_top" /\ UNCHANGED <<op, returned, lastRet, callErr, surfaced, opRet>>)
            /\ UNCHANGED <<work_queue, wpc, last_sequence_id, state, error_store,
                           shutdown_flag>>
            /\ UNCHANGED <<stored, units, closedBy, finishCalled>>
       ELSE /\ MutexFree
            /\ UNCHANGED <<chan, next_index_to_return, out_of_order_results>>
            /\ UNCHANGED <<returned, lastRet, callErr, stored, surfaced, op, opRet, stashedEver>>
            /\ IF ~queue_has_room(queue_len)
                 THEN /\ cpc' = "gr_recv"
                      /\ UNCHANGED <<work_queue, wpc, last_sequence_id, state,
                                     error_store, shutdown_flag, units, closedBy, finishCalled>>
                 ELSE IF client = "lzma2reader"
                   THEN \* Lzma2ReaderMt: read_and_dispatch_chunk
                        /\ cpc' = "l2r_read"
                        /\ UNCHANGED <<work_queue, wpc, last_sequence_id, state,
                                       error_store, shutdown_flag, units, closedBy, finishCalled>>
                 ELSE IF no_more_work(next_index_to_dispatch)
                   THEN \* Ok(false) => self.finish()
                        /\ last_sequence_id' = last_index(next_index_to_dispatch)
                        /\ state' = "Draining"
                        /\ finishCalled' = TRUE
                        /\ cpc' = "gr_top"
                        /\ UNCHANGED <<work_queue, wpc, error_store, shutdown_flag, units, closedBy>>
                   ELSE IF client = "writer"
                     THEN \* the producer of finish() fails: Err(error) => set_error
                          /\ error_store' = set_error(error_store, NoMoreWorkErr)
                          /\ shutdown_flag' = TRUE
                          /\ state' = "Error"
                          /\ cpc' = "gr_top"
                          /\ UNCHANGED <<work_queue, wpc, last_sequence_id, units, closedBy,
                                         finishCalled>>
                     ELSE IF closed
                       THEN \* push fails: set_error in dispatch_next_work and again here
                            /\ error_store' =
                                 set_error(set_error(error_store, BrokenPipe), BrokenPipe)
                            /\ shutdown_flag' = TRUE
                            /\ state' = "Error"
                            /\ cpc' = "gr_top"
                            /\ UNCHANGED <<work_queue, wpc, last_sequence_id, units, closedBy,
                                           finishCalled>>
                       ELSE /\ work_queue' =
                                 Append(work_queue, producer(next_index_to_dispatch))
                            /\ units' = Append(units, producer(next_index_to_dispatch))
                            /\ closedBy' = Append(closedBy, op)
                            /\ wpc' \in notify_one(wpc)
                            /\ cpc' = "gr_spawn"
                            /\ UNCHANGED <<last_sequence_id, state, error_store,
                                           shutdown_flag, finishCalled>>
  /\ UNCHANGED <<closed, rx_alive, next_index_to_dispatch, active_workers, spawned>>
  /\ UNCHANGED <<cfgVars, swVars, witem, remaining, current_work_unit, accepted>>

GetResultSpawn == dispatch_spawn("gr_spawn", "gr_top")

\* get_result, state Draining: Finished once the last index has been
\* returned, else go on to the blocking recv
GetResultDraining ==
  /\ cpc = "gr_match"
  /\ state = "Draining"
  /\ IF last_sequence_id # NoneSeq /\ next_index_to_return > last_sequence_id
       THEN state' = "Finished" /\ cpc' = "gr_top"
       ELSE cpc' = "gr_recv" /\ UNCHANGED state
  /\ UNCHANGED <<work_queue, closed, chan, rx_alive, next_index_to_dispatch,
                 next_index_to_return, last_sequence_id, out_of_order_results,
                 shutdown_flag, error_store, active_workers, spawned>>
  /\ UNCHANGED <<cfgVars, swVars, workerVars, op, remaining, current_work_unit, accepted, histVars>>

\* get_result, state Finished: return Ok(None)
GetResultFinished ==
  /\ cpc = "gr_match"
  /\ state = "Finished"
  /\ ReturnNone("gr_match", callErr, error_store)
  /\ UNCHANGED <<cfgVars, swVars, poolVars, workerVars, remaining, current_work_unit, accepted>>
  /\ UNCHANGED <<stored, units, closedBy, stashedEver, finishCalled>>

\* get_result, state Error: the stored error, or the "unknown error"
GetResultError ==
  /\ cpc = "gr_match"
  /\ state = "Error"
  /\ error_store' = NoErr
  /\ ReturnErr(IF error_store # NoErr THEN error_store ELSE UnknownErr, callErr, NoErr)
  /\ UNCHANGED <<work_queue, closed, chan, rx_alive, next_index_to_dispatch,
                 next_index_to_return, last_sequence_id, out_of_order_results,
                 shutdown_flag, state, active_workers, spawned>>
  /\ UNCHANGED <<cfgVars, swVars, workerVars, remaining, current_work_unit, accepted>>
  /\ UNCHANGED <<stored, units, closedBy, stashedEver, finishCalled>>

\* get_result: self.result_rx.recv() of the states Dispatching and Draining.
\* The pool keeps a SyncSender of its own (result_tx), so the channel never
\* disconnects while the pool lives: recv returns only when a result arrives.
GetResultRecv ==
  /\ cpc = "gr_recv"
  /\ chan # <<>>
  /\ chan' = Tail(chan)
  /\ Received(Head(chan), "gr_recv", callErr, cpc' = "gr_top" /\ UNCHANGED <<op, returned, lastRet, callErr, surfaced, opRet>>)
  /\ UNCHANGED <<work_queue, closed, rx_alive, next_index_to_dispatch,
                 last_sequence_id, shutdown_flag, error_store, state, active_workers,
                 spawned>>
  /\ UNCHANGED <<cfgVars, swVars, workerVars, remaining, current_work_unit, accepted>>
  /\ UNCHANGED <<stored, units, closedBy, finishCalled>>

(***************************************************************************)
(* lzip/reader_mt.rs: LzipReaderMt                                         *)
(***************************************************************************)
\* read -> get_next_uncompressed_chunk: in LzipReaderMt Ok(None) at once when
\* the pool is Finished, else work_pool.get_result(producer); in XzReaderMt and
\* Lzma2ReaderMt the loop of their own
ReadCall ==
  /\ cpc = "idle"
  /\ IsReader
  /\ IF client = "reader" /\ state = "Finished"
       THEN /\ opRet' = [op |-> "read", ok |-> TRUE]
            /\ UNCHANGED <<cpc, op, callErr>>
       ELSE /\ cpc' = "gr_top"
            /\ op' = "read"
            /\ callErr' = error_store
            /\ UNCHANGED opRet
  /\ UNCHANGED <<cfgVars, swVars, poolVars, workerVars, remaining, current_work_unit, accepted>>
  /\ UNCHANGED <<returned, lastRet, stored, surfaced, units, closedBy, stashedEver, finishCalled>>

(***************************************************************************)
(* lzip/writer_mt.rs, enc/lzma2_writer_mt.rs, xz/writer_mt.rs: the         *)
(* multi-threaded writers                                                  *)
(***************************************************************************)
\* usize::saturating_sub
saturating_sub(a, b) == IF a > b THEN a - b ELSE 0

\* a write that puts the whole buffer into the current unit
to_write_all(rem, cur) == rem

\* write: let to_write = remaining_buf.len().min(member_remaining)
to_write(rem, cur) == Min(rem, saturating_sub(unit_size, cur))

\* write(buf) with a non-empty buffer of n bytes
WriteCall ==
  /\ cpc = "idle"
  /\ client = "writer"
  /\ \E n \in 1..(MaxWork - accepted) : remaining' = n
  /\ op' = "write"
  /\ cpc' = "w_loop"
  /\ UNCHANGED <<cfgVars, swVars, poolVars, workerVars, current_work_unit, accepted, histVars>>

\* one turn of the while loop of write, up to the call of send_work_unit
WriteLoop ==
  /\ cpc = "w_loop"
  /\ LET n == to_write(remaining, current_work_unit) IN
       /\ current_work_unit' = current_work_unit + n
       /\ accepted' = accepted + n
       /\ remaining' = remaining - n
       /\ cpc' = IF current_work_unit + n >= unit_size THEN "send_drain1" ELSE "w_drain"
  /\ UNCHANGED <<cfgVars, swVars, poolVars, workerVars, op, histVars>>

\* flush: send_work_unit when bytes are pending, then the try_get_result loop
FlushCall ==
  /\ cpc = "idle"
  /\ client = "writer"
  /\ op' = "flush"
  /\ cpc' = IF current_work_unit > 0 THEN "send_drain1" ELSE "fl_drain"
  /\ UNCHANGED <<cfgVars, swVars, poolVars, workerVars, remaining, current_work_unit, accepted,
                 histVars>>

\* finish: send_work_unit when bytes are pending
FinishCall ==
  /\ cpc = "idle"
  /\ client = "writer"
  /\ op' = "finish"
  /\ cpc' = IF current_work_unit > 0 THEN "send_drain1" ELSE "fin_check"
  /\ UNCHANGED <<cfgVars, swVars, poolVars, workerVars, remaining, current_work_unit, accepted,
                 histVars>>

\* drain_available_results: while let Some(..) = try_get_result()?
SendDrainBefore == try_get_result("send_drain1")
SendDrainAfter == try_get_result("send_drain2")
WriteDrain == try_get_result("w_drain")
FlushDrain == try_get_result("fl_drain")

\* send_work_unit: take current_work_unit and dispatch_next_work, up to the
\* push and its notify_one
SendDispatch ==
  /\ cpc = "send_dispatch"
  /\ MutexFree
  /\ current_work_unit' = 0
  /\ IF no_more_work(next_index_to_dispatch)
       THEN \* Ok(false): the taken bytes are not dispatched
            /\ cpc' = "send_drain2"
            /\ UNCHANGED <<work_queue, wpc, state, error_store, shutdown_flag, units, closedBy,
                           lastRet, surfaced, callErr, op, opRet>>
       ELSE IF closed
         THEN /\ state' = "Error"
              /\ error_store' = set_error(error_store, BrokenPipe)
              /\ shutdown_flag' = TRUE
              /\ lastRet' = RetErr(BrokenPipe, error_store)
              /\ surfaced' = surfaced \cup {BrokenPipe}
              /\ cpc' = AfterErr
              /\ callErr' = set_error(error_store, BrokenPipe)
              /\ OpEnds(AfterErr, FALSE)
              /\ UNCHANGED <<work_queue, wpc, units, closedBy>>
         ELSE /\ work_queue' = Append(work_queue, producer(next_index_to_dispatch))
              /\ units' = Append(units, producer(next_index_to_dispatch))
              /\ closedBy' = Append(closedBy, op)
              /\ wpc' \in notify_one(wpc)
              /\ cpc' = "send_spawn"
              /\ UNCHANGED <<state, error_store, shutdown_flag, lastRet, surfaced,
                             callErr, op, opRet>>
  /\ UNCHANGED <<closed, chan, rx_alive, next_index_to_dispatch, next_index_to_return,
                 last_sequence_id, out_of_order_results, active_workers, spawned>>
  /\ UNCHANGED <<cfgVars, swVars, witem, remaining, accepted, returned, stored, stashedEver, finishCalled>>

SendSpawn == dispatch_spawn("send_spawn", "send_drain2")

\* finish after send_work_unit: the empty stream when nothing was dispatched,
\* else work_pool.finish() and the get_result loop
FinishCheck ==
  /\ cpc = "fin_check"
  /\ IF next_index_to_dispatch = 0
       THEN /\ cpc' = "drop1"
            /\ op' = "none"
            /\ opRet' = [op |-> "finish", ok |-> TRUE]
            /\ UNCHANGED <<last_sequence_id, state, finishCalled, callErr>>
       ELSE /\ IF state = "Dispatching"
                 THEN /\ last_sequence_id' = last_index(next_index_to_dispatch)
                      /\ state' = "Draining"
                      /\ finishCalled' = TRUE
                 ELSE UNCHANGED <<last_sequence_id, state, finishCalled>>
            /\ cpc' = "gr_top"
            /\ callErr' = error_store
            /\ UNCHANGED <<op, opRet>>
  /\ UNCHANGED <<work_queue, closed, chan, rx_alive, next_index_to_dispatch,
                 next_index_to_return, out_of_order_results, shutdown_flag, error_store,
                 active_workers, spawned>>
  /\ UNCHANGED <<cfgVars, swVars, workerVars, remaining, current_work_unit, accepted>>
  /\ UNCHANGED <<returned, lastRet, stored, surfaced, units, closedBy, stashedEver>>

(***************************************************************************)
(* work_pool.rs: Drop for WorkPool, then the drop of its fields            *)
(***************************************************************************)
\* self.shutdown_flag.store(true)
DropShutdown ==
  /\ cpc \in {"idle", "drop1"}
  /\ shutdown_flag' = TRUE
  /\ cpc' = "drop2"
  /\ UNCHANGED <<work_queue, closed, chan, rx_alive, next_index_to_dispatch,
                 next_index_to_return, last_sequence_id, out_of_order_results,
                 error_store, state, active_workers, spawned>>
  /\ UNCHANGED <<cfgVars, swVars, workerVars, op, remaining, current_work_unit, accepted, histVars>>

\* WorkStealingQueue::close: closed.store(true)
DropClose ==
  /\ cpc = "drop2"
  /\ closed' = TRUE
  /\ cpc' = "drop3"
  /\ UNCHANGED <<work_queue, chan, rx_alive, next_index_to_dispatch,
                 next_index_to_return, last_sequence_id, out_of_order_results,
                 shutdown_flag, error_store, state, active_workers, spawned>>
  /\ UNCHANGED <<cfgVars, swVars, workerVars, op, remaining, current_work_unit, accepted, histVars>>

\* WorkStealingQueue::close: condvar.notify_all()
DropNotifyAll ==
  /\ cpc = "drop3"
  /\ wpc' = notify_all(wpc)
  /\ cpc' = "drop4"
  /\ UNCHANGED <<cfgVars, swVars, poolVars, witem, op, remaining, current_work_unit, accepted,
                 histVars>>

\* the fields go: result_rx is dropped with whatever the buffer holds
DropFields ==
  /\ cpc = "drop4"
  /\ rx_alive' = FALSE
  /\ chan' = <<>>
  /\ cpc' = "dropped"
  /\ UNCHANGED <<work_queue, closed, next_index_to_dispatch, next_index_to_return,
                 last_sequence_id, out_of_order_results, shutdown_flag, error_store,
                 state, active_workers, spawned>>
  /\ UNCHANGED <<cfgVars, swVars, workerVars, op, remaining, current_work_unit, accepted, histVars>>

(***************************************************************************)
(* The pool with its workers and its client                                *)
(***************************************************************************)
Worker(w) ==
  \/ WorkerLoopTop(w)
  \/ WorkerStealCheck(w)
  \/ WorkerWait(w)
  \/ WorkerGotWork(w)
  \/ WorkerProcessOk(w)
  \/ WorkerProcessErr(w)
  \/ WorkerSetError(w)
  \/ WorkerSend(w)
  \/ WorkerSent(w)

GetResult ==
  \/ GetResultTop
  \/ GetResultDispatching
  \/ GetResultSpawn
  \/ GetResultDraining
  \/ GetResultFinished
  \/ GetResultError
  \/ GetResultRecv

WriterStep ==
  \/ WriteLoop
  \/ SendDrainBefore
  \/ SendDispatch
  \/ SendSpawn
  \/ SendDrainAfter
  \/ WriteDrain
  \/ FlushDrain
  \/ FinishCheck

Drop ==
  \/ DropShutdown
  \/ DropClose
  \/ DropNotifyAll
  \/ DropFields

Next ==
  \/ ReadCall
  \/ WriteCall
  \/ FlushCall
  \/ FinishCall
  \/ GetResult
  \/ WriterStep
  \/ Drop
  \/ \E w \in Threads : Worker(w)
  \/ \E w \in Threads : WorkerSpuriousWake(w)

Spec == InitPool /\ [][Next]_vars

(***************************************************************************)
(* The control bytes of LZMA2 chunks (enc/lzma2_writer.rs,                 *)
(* lzma2_reader_mt.rs)                                                     *)
(***************************************************************************)
\* Option<NonZeroU64>::None of chunk_size / block_size
NoneSize == 0
\* the size bits of the control byte: (uncompressed_size - 1) >> 16
SizeShift == 65536
\* write_lzma: 0x80 + (3 << 5), 0x80 + (2 << 5), 0x80 + (1 << 5), 0x80
ControlResetDict == 224
ControlResetProps == 192
ControlResetState == 160
ControlLzma == 128
\* write_uncompressed: 0x01 with, 0x02 without dictionary reset
ControlRawResetDict == 1
ControlRaw == 2
\* finish: self.inner.write_u8(0x00)
ControlEnd == 0
\* a control byte that is none of 0x00, 0x01, 0x02 and below 0x80
ControlInvalid == 3

(***************************************************************************)
(* xz/reader_mt.rs, lzma2_reader_mt.rs: the pools XzReaderMt and           *)
(* Lzma2ReaderMt keep themselves.  Their get_next_uncompressed_chunk is    *)
(* the loop of WorkPool::get_result (State::Reading of Lzma2ReaderMt is    *)
(* written "Dispatching"), with work_queue.is_empty() as the test for a    *)
(* dispatch; their workers and their Drop are those of the WorkPool.       *)
(***************************************************************************)
\* XzReaderMt::new: worker_handles is empty, no worker is spawned
XzReaderNew ==
  /\ work_queue = <<>>
  /\ closed = FALSE
  /\ chan = <<>>
  /\ rx_alive = TRUE
  /\ next_index_to_dispatch = 0
  /\ next_index_to_return = 0
  /\ last_sequence_id = NoneSeq
  /\ out_of_order_results = {}
  /\ shutdown_flag = FALSE
  /\ error_store = NoErr
  /\ state = "Dispatching"
  /\ active_workers = 0
  /\ spawned = 0
  /\ wpc = [w \in Threads |-> "unspawned"]
  /\ witem = [w \in Threads |-> NoItem]

\* the control bytes of the chunks in the input of Lzma2ReaderMt
InputControls == {ControlRawResetDict, ControlLzma, ControlResetDict}

\* the inputs of Lzma2ReaderMt: up to MaxWork chunks, with or without the end
\* marker 0x00 after them
Lzma2Streams ==
  UNION {{[k \in 1..(n + e) |->
             IF k <= n THEN [control |-> ctl[k], size |-> 1, props |-> FALSE]
             ELSE [control |-> ControlEnd, size |-> 0, props |-> FALSE]] :
            ctl \in [1..n -> InputControls]} : n \in 0..MaxWork, e \in 0..1}

\* the chunks of a stream, its end marker left out
chunks_of(stream) == SelectSeq(stream, LAMBDA c : c.control # ControlEnd)

\* a test that takes only the LZMA chunks with a dictionary reset for independent
is_independent_chunk_lzma_only(control) == control >= ControlResetDict

\* a reader that takes every control byte for the start of a chunk
is_invalid_control_never(control) == control < ControlEnd

\* read_and_dispatch_chunk: neither control >= 0x80 nor control == 0x01 || control == 0x02
is_invalid_control(control) == control > ControlRaw /\ control < ControlLzma

\* a test that takes every chunk for an independent one
is_independent_chunk_always(control) == control >= ControlEnd

\* read_and_dispatch_chunk: let is_independent_chunk = control >= 0xE0 || control == 0x01
is_independent_chunk(control) == control >= ControlResetDict \/ control = ControlRawResetDict

\* XzReaderMt::new over a file of num_work blocks (scan_blocks refuses a file
\* without blocks); Lzma2ReaderMt::new, which spawns its first worker, over a
\* stream (lzma2.inner) of which remaining chunks are still to be read
InitReaderPools ==
  /\ client \in {"xzreader", "lzma2reader"}
  /\ \E cfg \in 0..MaxThreads : num_workers = clamp(cfg, MinWorkers, MaxWorkersCap)
  /\ num_work \in IF client = "xzreader" THEN 1..MaxWork ELSE {U64Max}
  /\ option_size = 1 /\ dict_size = 1 /\ unit_size = 1
  /\ IF client = "xzreader" THEN XzReaderNew ELSE PoolNew
  /\ cpc = "idle"
  /\ op = "none"
  /\ \E stream \in IF client = "lzma2reader" THEN Lzma2Streams ELSE {<<>>} :
       /\ lzma2 = [Lzma2New EXCEPT !.inner = stream]
       /\ remaining = Len(chunks_of(stream))
  /\ current_work_unit = 0
  /\ accepted = 0
  /\ returned = <<>>
  /\ lastRet = RetInit
  /\ callErr = NoErr
  /\ stored = <<>>
  /\ surfaced = {}
  /\ units = <<>>
  /\ closedBy = <<>>
  /\ stashedEver = {}
  /\ finishCalled = FALSE
  /\ opRet = [op |-> "none", ok |-> TRUE]
  /\ xz = XzNew("Crc32")
  /\ DecodersNew

\* Lzma2ReaderMt::send_work_unit up to the push: the unit goes into the queue,
\* or, the queue closed, the state is Error and the error is stored
l2r_push(next) ==
  /\ MutexFree
  /\ IF closed
       THEN /\ state' = "Error"
            /\ error_store' = set_error(error_store, BrokenPipe)
            /\ shutdown_flag' = TRUE
            /\ UNCHANGED <<work_queue, wpc, units, closedBy>>
       ELSE /\ work_queue' = Append(work_queue,
                                    Item(next_index_to_dispatch, accepted, current_work_unit))
            /\ units' = Append(units, Item(next_index_to_dispatch, accepted, current_work_unit))
            /\ closedBy' = Append(closedBy, op)
            /\ wpc' \in notify_one(wpc)
            /\ UNCHANGED <<state, error_store, shutdown_flag>>
  /\ accepted' = accepted + current_work_unit
  /\ cpc' = next

\* self.inner.read_exact(&mut control_buf) with left chunks still to be read:
\* the control byte of the next chunk, the end marker, or nothing
NoControl == -1
next_control(stream, left) ==
  IF left > 0 THEN stream[Len(chunks_of(stream)) - left + 1].control
  ELSE IF Len(stream) > Len(chunks_of(stream)) THEN ControlEnd
  ELSE NoControl

\* Lzma2ReaderMt::read_and_dispatch_chunk: the end of the input (Ok(false)),
\* the end marker 0x00, which is sent as a work unit (Ok(false)), an invalid
\* control byte (Err), a chunk the input ends in (Err), or a chunk that is
\* appended to the current work unit (Ok(true)), the unit being sent first
\* when the chunk is an independent one.  current_work_unit counts chunks.
Lzma2ReaderReadChunk ==
  /\ cpc = "l2r_read"
  /\ LET control == next_control(lzma2.inner, remaining) IN
     IF control = NoControl
       THEN \* UnexpectedEof: Ok(false)
            /\ cpc' = "l2r_eof"
            /\ UNCHANGED <<work_queue, wpc, units, closedBy, state, error_store,
                           shutdown_flag, accepted, current_work_unit, remaining>>
     ELSE IF control = ControlEnd
       THEN \* current_work_unit.push(0x00); send_work_unit(); Ok(false)
            /\ l2r_push("l2r_spawn_end")
            /\ current_work_unit' = 0
            /\ UNCHANGED remaining
     ELSE IF is_invalid_control(control)
       THEN \* the byte is pushed onto the unit, then Err(InvalidData): set_error and
            \* State::Error in get_next_uncompressed_chunk
            /\ error_store' = set_error(error_store, InvalidDataErr)
            /\ shutdown_flag' = TRUE
            /\ state' = "Error"
            /\ cpc' = "gr_top"
            /\ remaining' = remaining - 1
            /\ UNCHANGED <<work_queue, wpc, units, closedBy, accepted, current_work_unit>>
       ELSE \/ \* the input ends inside the chunk: Err
               /\ error_store' = set_error(error_store, WorkerErr(MaxWork))
               /\ shutdown_flag' = TRUE
               /\ state' = "Error"
               /\ cpc' = "gr_top"
               /\ UNCHANGED <<work_queue, wpc, units, closedBy, accepted,
                              current_work_unit, remaining>>
            \/ IF is_independent_chunk(control) /\ current_work_unit > 0
                 THEN /\ l2r_push("l2r_spawn_mid")
                      /\ current_work_unit' = 1
                      /\ remaining' = remaining - 1
                 ELSE /\ current_work_unit' = current_work_unit + 1
                      /\ remaining' = remaining - 1
                      /\ cpc' = "gr_top"
                      /\ UNCHANGED <<work_queue, wpc, units, closedBy, state, error_store,
                                     shutdown_flag, accepted>>
  /\ UNCHANGED <<closed, chan, rx_alive, next_index_to_dispatch, next_index_to_return,
                 last_sequence_id, out_of_order_results, active_workers, spawned>>
  /\ UNCHANGED <<cfgVars, swVars, witem, op>>
  /\ UNCHANGED <<returned, lastRet, callErr, stored, surfaced, stashedEver, finishCalled, opRet>>

\* send_work_unit after the push: the spawn test and next_sequence_to_dispatch += 1
Lzma2ReaderSpawnMid == dispatch_spawn("l2r_spawn_mid", "gr_top")
Lzma2ReaderSpawnEnd == dispatch_spawn("l2r_spawn_end", "l2r_eof")

\* Ok(false): send_work_unit for what is left of the input, then
\* last_sequence_id = Some(next_sequence_to_dispatch.saturating_sub(1)) and
\* state = Draining
Lzma2ReaderEof ==
  /\ cpc = "l2r_eof"
  /\ IF current_work_unit > 0
       THEN /\ l2r_push("l2r_spawn_end")
            /\ current_work_unit' = 0
            /\ UNCHANGED <<last_sequence_id, finishCalled>>
       ELSE /\ last_sequence_id' = last_index(next_index_to_dispatch)
            /\ state' = "Draining"
            /\ finishCalled' = TRUE
            /\ cpc' = "gr_top"
            /\ UNCHANGED <<work_queue, wpc, units, closedBy, error_store, shutdown_flag,
                           accepted, current_work_unit>>
  /\ UNCHANGED <<closed, chan, rx_alive, next_index_to_dispatch, next_index_to_return,
                 out_of_order_results, active_workers, spawned>>
  /\ UNCHANGED <<cfgVars, swVars, witem, op, remaining>>
  /\ UNCHANGED <<returned, lastRet, callErr, stored, surfaced, stashedEver, opRet>>

Lzma2ReaderStep ==
  \/ Lzma2ReaderReadChunk
  \/ Lzma2ReaderSpawnMid
  \/ Lzma2ReaderSpawnEnd
  \/ Lzma2ReaderEof

\* the three pools side by side
InitPools == InitPool \/ InitReaderPools

NextPools ==
  \/ Next
  \/ Lzma2ReaderStep

SpecPools == InitPools /\ [][NextPools]_vars

\* the inputs of Lzma2ReaderMt that may hold a control byte of 0x03..=0x7F: up
\* to MaxWork control bytes, invalid ones among them, and the end marker
Lzma2StreamsInvalid ==
  UNION {{[k \in 1..(n + 1) |->
             IF k <= n THEN [control |-> ctl[k], size |-> 1, props |-> FALSE]
             ELSE [control |-> ControlEnd, size |-> 0, props |-> FALSE]] :
            ctl \in [1..n -> {ControlLzma, ControlResetDict, ControlInvalid}]} :
         n \in 0..MaxWork}

\* Lzma2ReaderMt::new over such an input
InitLzma2ReaderMt ==
  /\ client = "lzma2reader"
  /\ \E cfg \in 0..MaxThreads : num_workers = clamp(cfg, MinWorkers, MaxWorkersCap)
  /\ num_work = U64Max
  /\ option_size = 1 /\ dict_size = 1 /\ unit_size = 1
  /\ PoolNew
  /\ cpc = "idle"
  /\ op = "none"
  /\ \E stream \in Lzma2StreamsInvalid :
       /\ lzma2 = [Lzma2New EXCEPT !.inner = stream]
       /\ remaining = Len(chunks_of(stream))
  /\ current_work_unit = 0
  /\ accepted = 0
  /\ returned = <<>>
  /\ lastRet = RetInit
  /\ callErr = NoErr
  /\ stored = <<>>
  /\ surfaced = {}
  /\ units = <<>>
  /\ closedBy = <<>>
  /\ stashedEver = {}
  /\ finishCalled = FALSE
  /\ opRet = [op |-> "none", ok |-> TRUE]
  /\ xz = XzNew("Crc32")
  /\ DecodersNew

\* Lzma2ReaderMt: read, its get_next_uncompressed_chunk, its workers, its Drop
NextLzma2ReaderMt ==
  \/ ReadCall
  \/ GetResultTop
  \/ GetResultDispatching
  \/ GetResultDraining
  \/ GetResultFinished
  \/ GetResultError
  \/ GetResultRecv
  \/ Lzma2ReaderStep
  \/ Drop
  \/ \E w \in Threads : Worker(w)
  \/ \E w \in Threads : WorkerSpuriousWake(w)

SpecLzma2ReaderMt == InitLzma2ReaderMt /\ [][NextLzma2ReaderMt]_vars

(***************************************************************************)
(* enc/lzma2_writer.rs: Lzma2Writer.  A chunk written to the sink is a     *)
(* record of its control byte and of the uncompressed bytes it carries.    *)
(***************************************************************************)
\* Lzma2Writer::new, XzWriter::new: the size kept, None or raised to dict_size
clamped_size(size, dict) == IF size = NoneSize THEN NoneSize ELSE Max(size, dict)

\* the single-threaded writers use no pool: its variables stay as they are
InitLzma2 ==
  /\ client = "lzma2"
  /\ num_workers = 1
  /\ num_work = U64Max
  /\ option_size \in {NoneSize} \cup (1..MaxUnitSize)
  /\ dict_size \in 1..MaxUnitSize
  /\ unit_size = clamped_size(option_size, dict_size)
  /\ PoolNew
  /\ ClientNew
  /\ lzma2 = Lzma2New
  /\ xz = XzNew("Crc32")
  /\ DecodersNew

\* should_start_independent_chunk
should_start_independent_chunk(w) ==
  unit_size # NoneSize /\ w.uncompressed_size >= unit_size

\* LZEncoder::fill_window: the bytes of the buffer the window takes
fill_window(len, pending) == Min(len, MaxWindow - pending)

\* encode_for_lzma2: symbols are encoded until the chunk is full (the
\* uncompressed limit, or the compressed limit, which depends on the data) or
\* the window has not enough data; all: the window is flushing or finishing.
\* The outcomes: the bytes encoded for the chunk so far and the value returned.
encode_for_lzma2(enc, pending, all) ==
  {o \in [enc : enc..Min(pending, MaxLzmaChunk), full : BOOLEAN] :
     /\ o.full => o.enc >= 1
     /\ o.enc = MaxLzmaChunk => o.full
     /\ (~o.full /\ all) => o.enc = pending}

\* write_lzma
write_lzma(w, uncompressed_size) ==
  LET base == IF w.props_needed \/ w.force_independent_chunk
                THEN (IF w.dict_reset_needed \/ w.force_independent_chunk
                        THEN ControlResetDict ELSE ControlResetProps)
                ELSE IF w.state_reset_needed THEN ControlResetState ELSE ControlLzma
      control == base + ((uncompressed_size - 1) \div SizeShift)
  IN [w EXCEPT !.inner = Append(@, [control |-> control, size |-> uncompressed_size,
                                    props |-> w.props_needed]),
               !.props_needed = FALSE,
               !.state_reset_needed = FALSE,
               !.dict_reset_needed = FALSE,
               !.force_independent_chunk = FALSE]

\* the chunks of write_uncompressed
RECURSIVE raw_chunks(_, _)
raw_chunks(uncompressed_size, dict_reset) ==
  IF uncompressed_size = 0 THEN <<>>
  ELSE LET chunk_size == Min(uncompressed_size, MaxRawChunk) IN
         <<[control |-> IF dict_reset THEN ControlRawResetDict ELSE ControlRaw,
            size |-> chunk_size, props |-> FALSE]>>
         \o raw_chunks(uncompressed_size - chunk_size, FALSE)

\* write_uncompressed
write_uncompressed(w, uncompressed_size) ==
  [w EXCEPT !.inner = @ \o raw_chunks(uncompressed_size, w.dict_reset_needed),
            !.dict_reset_needed = IF uncompressed_size > 0 THEN FALSE ELSE @,
            !.state_reset_needed = TRUE]

\* a test that lets the chunk be an LZMA chunk up to compressed_size = uncompressed_size + 1
lzma_chunk_is_smaller_loose(compressed_size, uncompressed_size) ==
  compressed_size < uncompressed_size + 2

\* write_chunk: if compressed_size + 2 < uncompressed_size
lzma_chunk_is_smaller(compressed_size, uncompressed_size) ==
  compressed_size + 2 < uncompressed_size

\* write_chunk: an LZMA chunk when the range coder's buffer is smaller than
\* the data by more than two bytes, else lzma.reset(), which adds the bytes
\* read ahead, and uncompressed chunks
write_chunk(w, compressed_size, read_ahead) ==
  LET lzma == lzma_chunk_is_smaller(compressed_size, w.lzma_uncompressed_size)
      uncompressed_size ==
        IF lzma THEN w.lzma_uncompressed_size ELSE w.lzma_uncompressed_size + read_ahead
      v == IF lzma THEN write_lzma(w, uncompressed_size)
           ELSE write_uncompressed(w, uncompressed_size)
  IN [v EXCEPT !.pending_size = @ - uncompressed_size,
               !.uncompressed_size = @ + uncompressed_size,
               !.lzma_uncompressed_size = 0,
               !.rc_size = compressed_size,
               !.data_size = w.lzma_uncompressed_size]

\* what write_chunk may do after encode_for_lzma2 has left enc bytes encoded
\* in a range coder buffer of 1..MaxRcSize bytes
chunk_written(w, enc) ==
  {write_chunk([w EXCEPT !.lzma_uncompressed_size = enc], c.compressed_size, c.read_ahead) :
     c \in {d \in [compressed_size : 1..MaxRcSize, read_ahead : 0..MaxReadAhead] :
              enc + d.read_ahead <= w.pending_size}}

\* one turn of: while self.pending_size > 0 { encode_for_lzma2; write_chunk }
flush_turn(w) ==
  UNION {chunk_written(w, o.enc) :
           o \in encode_for_lzma2(w.lzma_uncompressed_size, w.pending_size, TRUE)}

Lzma2Frame ==
  UNCHANGED <<cfgVars, poolVars, workerVars, current_work_unit, histVars, xz, coder, mbi, lzip>>

\* write(buf) with a non-empty buffer
Lzma2Write ==
  /\ cpc = "idle" /\ client = "lzma2"
  /\ \E n \in 1..(MaxInput - accepted) : remaining' = n
  /\ op' = "write"
  /\ cpc' = "l2_top"
  /\ UNCHANGED <<accepted, lzma2>>
  /\ Lzma2Frame

\* write: while len > 0 { if self.should_start_independent_chunk() ..
Lzma2WriteTop ==
  /\ cpc = "l2_top"
  /\ IF remaining = 0
       THEN cpc' = "idle" /\ op' = "none"
       ELSE /\ cpc' = IF should_start_independent_chunk(lzma2) THEN "l2_sic" ELSE "l2_fill"
            /\ UNCHANGED op
  /\ UNCHANGED <<remaining, accepted, lzma2>>
  /\ Lzma2Frame

\* a start_independent_chunk that asks for no dictionary reset
start_independent_chunk_no_dict(w) ==
  [w EXCEPT !.state_reset_needed = TRUE,
            !.props_needed = TRUE,
            !.uncompressed_size = 0,
            !.lzma_uncompressed_size = 0,
            !.marks = @ \cup {Len(w.inner) + 1}]

\* start_independent_chunk after its loop: the resets and a new encoder
start_independent_chunk(w) ==
  [w EXCEPT !.force_independent_chunk = TRUE,
            !.dict_reset_needed = TRUE,
            !.state_reset_needed = TRUE,
            !.props_needed = TRUE,
            !.uncompressed_size = 0,
            !.lzma_uncompressed_size = 0,
            !.marks = @ \cup {Len(w.inner) + 1}]

\* start_independent_chunk: what is pending goes out first, then the resets
\* and a new encoder
Lzma2StartIndependentChunk ==
  /\ cpc = "l2_sic"
  /\ IF lzma2.pending_size > 0
       THEN lzma2' \in flush_turn(lzma2) /\ UNCHANGED cpc
       ELSE /\ lzma2' = start_independent_chunk(lzma2)
            /\ cpc' = "l2_fill"
  /\ UNCHANGED <<op, remaining, accepted>>
  /\ Lzma2Frame

\* write: fill_window, pending_size += used, and write_chunk when
\* encode_for_lzma2 returns true
Lzma2FillEncode ==
  /\ cpc = "l2_fill"
  /\ LET used == fill_window(remaining, lzma2.pending_size)
         w == [lzma2 EXCEPT !.pending_size = @ + used]
     IN /\ remaining' = remaining - used
        /\ accepted' = accepted + used
        /\ \E o \in encode_for_lzma2(w.lzma_uncompressed_size, w.pending_size, FALSE) :
             IF o.full
               THEN lzma2' \in chunk_written(w, o.enc)
               ELSE lzma2' = [w EXCEPT !.lzma_uncompressed_size = o.enc]
  /\ cpc' = "l2_top"
  /\ UNCHANGED op
  /\ Lzma2Frame

\* flush: set_flushing, then the loop
Lzma2Flush ==
  /\ cpc = "idle" /\ client = "lzma2"
  /\ op' = "flush"
  /\ cpc' = "l2_flush"
  /\ UNCHANGED <<remaining, accepted, lzma2>>
  /\ Lzma2Frame

Lzma2FlushLoop ==
  /\ cpc = "l2_flush"
  /\ IF lzma2.pending_size > 0
       THEN lzma2' \in flush_turn(lzma2) /\ UNCHANGED <<cpc, op>>
       ELSE cpc' = "idle" /\ op' = "none" /\ UNCHANGED lzma2
  /\ UNCHANGED <<remaining, accepted>>
  /\ Lzma2Frame

\* finish: set_finishing, then the loop and the end marker
Lzma2Finish ==
  /\ cpc = "idle" /\ client = "lzma2"
  /\ op' = "finish"
  /\ cpc' = "l2_finish"
  /\ UNCHANGED <<remaining, accepted, lzma2>>
  /\ Lzma2Frame

Lzma2FinishLoop ==
  /\ cpc = "l2_finish"
  /\ IF lzma2.pending_size > 0
       THEN lzma2' \in flush_turn(lzma2) /\ UNCHANGED <<cpc, op>>
       ELSE /\ lzma2' = [lzma2 EXCEPT
                           !.inner = Append(@, [control |-> ControlEnd, size |-> 0,
                                                props |-> FALSE])]
            /\ cpc' = "l2_done"
            /\ op' = "none"
  /\ UNCHANGED <<remaining, accepted>>
  /\ Lzma2Frame

NextLzma2 ==
  \/ Lzma2Write
  \/ Lzma2WriteTop
  \/ Lzma2StartIndependentChunk
  \/ Lzma2FillEncode
  \/ Lzma2Flush
  \/ Lzma2FlushLoop
  \/ Lzma2Finish
  \/ Lzma2FinishLoop

SpecLzma2 == InitLzma2 /\ [][NextLzma2]_vars

(***************************************************************************)
(* enc/lzma2_writer_mt.rs: what Lzma2WriterMt writes to its sink.  A       *)
(* worker compresses its unit with an Lzma2Writer of its own (chunk_size   *)
(* None, no preset dictionary), write_all and flush; the controlling       *)
(* thread writes the results in the order the pool returns them.           *)
(***************************************************************************)
\* finish: self.inner.write_u8(0x00)
EndMarker == [control |-> ControlEnd, size |-> 0, props |-> FALSE]

\* what the sink of w holds once nothing is pending any more
RECURSIVE flushed(_)
flushed(w) ==
  IF w.pending_size = 0 THEN {w.inner}
  ELSE UNION {flushed(v) : v \in flush_turn(w)}

\* a worker that ends its unit with finish()
worker_compress_finished(len) ==
  {chunks \o <<EndMarker>> : chunks \in flushed([Lzma2New EXCEPT !.pending_size = len])}

\* worker_thread_logic: writer.write_all(&work_unit.data), writer.flush()
worker_compress(len) ==
  flushed([Lzma2New EXCEPT !.pending_size = len])

\* drain_available_results, finish: self.inner.write_all(&compressed_data)
RECURSIVE mt_written(_)
mt_written(results) ==
  IF results = <<>> THEN {<<>>}
  ELSE {a \o b : a \in worker_compress(results[1].len), b \in mt_written(Tail(results))}

\* finish has returned Ok
finish_ok ==
  IF client = "lzma2" THEN cpc = "l2_done"
  ELSE client = "writer" /\ opRet = [op |-> "finish", ok |-> TRUE]

\* the chunk sequences the sink may hold
sink_chunks ==
  IF client = "lzma2" THEN {lzma2.inner}
  ELSE {s \o (IF finish_ok THEN <<EndMarker>> ELSE <<>>) : s \in mt_written(returned)}

\* a pool and its client, or an Lzma2Writer, which has no pool
InitLzma2Out == InitLzma2 \/ InitPool

NextLzma2Out ==
  \/ (client \in {"reader", "writer"} /\ Next)
  \/ NextLzma2

SpecLzma2Out == InitLzma2Out /\ [][NextLzma2Out]_vars

(***************************************************************************)
(* xz.rs, xz/writer.rs: XzWriter, and the stream XzWriterMt::finish writes *)
(* when nothing was dispatched.  out lists what reaches the sink, segment  *)
(* by segment.                                                             *)
(***************************************************************************)
\* xz.rs:35  const XZ_MAGIC: [u8; 6]
XZ_MAGIC_LEN == 6
\* xz.rs:37  const XZ_FOOTER_MAGIC: [u8; 2]
XZ_FOOTER_MAGIC_LEN == 2
\* stream_flags: [u8; 2]
STREAM_FLAGS_LEN == 2
\* write_u32 of a CRC32 or of backward_size
U32_LEN == 4
\* generate_block_header_data with the LZMA2 filter alone: block flags,
\* filter id, properties size, dictionary size property
LZMA2_HEADER_DATA_LEN == 4

CheckTypes == {"None", "Crc32", "Crc64", "Sha256"}

\* CheckType::checksum_size
checksum_size(check) ==
  CASE check = "None" -> 0
    [] check = "Crc32" -> 4
    [] check = "Crc64" -> 8
    [] check = "Sha256" -> 32

\* count_multibyte_integer_size_for_value
RECURSIVE count_loop(_)
count_loop(value) == IF value > 0 THEN 1 + count_loop(value \div 128) ELSE 0
count_multibyte_integer_size_for_value(value) ==
  IF value = 0 THEN 1 ELSE count_loop(value)

\* encode_multibyte_integer: the bytes put into buf
RECURSIVE encode_multibyte_integer(_)
encode_multibyte_integer(value) ==
  IF value >= 128
    THEN <<(value % 128) + 128>> \o encode_multibyte_integer(value \div 128)
    ELSE <<value>>

\* (4 - (n % 4)) % 4
padding_needed(n) == (4 - (n % 4)) % 4

\* write through the CountingWriter
counted_write(x, seg, n) ==
  [x EXCEPT !.out = Append(@, [seg |-> seg, n |-> n]), !.bytes_written = @ + n]

\* write to the sink itself (XzWriterMt)
sink_write(x, seg, n) == [x EXCEPT !.out = Append(@, [seg |-> seg, n |-> n])]

\* write_xz_stream_header: magic, stream flags, CRC32
stream_header_len == XZ_MAGIC_LEN + STREAM_FLAGS_LEN + U32_LEN

\* XzWriter::write_stream_header
write_stream_header(x) ==
  IF x.header_written THEN x
  ELSE [counted_write(x, "header", stream_header_len) EXCEPT !.header_written = TRUE]

\* write_xz_block_header: the header size, a multiple of four
block_header_size ==
  LET total_size_needed == 1 + LZMA2_HEADER_DATA_LEN + U32_LEN
  IN ((total_size_needed + 3) \div 4) * 4

\* write_xz_index: index_data
RECURSIVE index_record_data(_)
index_record_data(records) ==
  IF records = <<>> THEN <<>>
  ELSE encode_multibyte_integer(Head(records).unpadded_size)
       \o encode_multibyte_integer(Head(records).uncompressed_size)
       \o index_record_data(Tail(records))
index_data(records) ==
  encode_multibyte_integer(Len(records)) \o index_record_data(records)

\* write_xz_index: indicator, index data, padding, CRC32
index_len(records) ==
  LET bytes_written == 1 + Len(index_data(records))
  IN bytes_written + padding_needed(bytes_written) + U32_LEN

\* write_xz_stream_footer: backward_size
RECURSIVE index_record_size(_)
index_record_size(records) ==
  IF records = <<>> THEN 0
  ELSE count_multibyte_integer_size_for_value(Head(records).unpadded_size)
       + count_multibyte_integer_size_for_value(Head(records).uncompressed_size)
       + index_record_size(Tail(records))
backward_size(records) ==
  LET index_size == 1 + count_multibyte_integer_size_for_value(Len(records))
                      + index_record_size(records)
  IN ((index_size + padding_needed(index_size) + U32_LEN) \div 4) - 1

\* write_xz_stream_footer: CRC32, backward_size, stream flags, magic
stream_footer_len == U32_LEN + U32_LEN + STREAM_FLAGS_LEN + XZ_FOOTER_MAGIC_LEN

\* prepare_next_block: the block header, the position after it, a new chain
prepare_next_block(x) ==
  LET x1 == counted_write(x, "block_header", block_header_size)
  IN [x1 EXCEPT !.current_block_header_size = block_header_size,
                !.current_block_start_pos = x1.bytes_written,
                !.writer = "LZMA2",
                !.block_uncompressed_size = 0]

\* FilterWriter::finish: an LZMA2 chain puts out the rest of its block, c
\* bytes with what it has put out before; the bare CountingWriter nothing
filter_finish(x, c) ==
  IF x.writer = "LZMA2"
    THEN [counted_write(x, "block_data", c) EXCEPT !.writer = "Counting"]
    ELSE x

\* should_finish_block
should_finish_block(x) ==
  unit_size # NoneSize /\ x.block_uncompressed_size >= unit_size

\* finish_current_block
finish_current_block(x, c) ==
  LET x1 == filter_finish(x, c)
      block_compressed_size == x1.bytes_written - x.current_block_start_pos
      pad == padding_needed(block_compressed_size)
      x2 == IF pad > 0 THEN counted_write(x1, "block_padding", pad) ELSE x1
      check == checksum_size(x.check_type)
      x3 == IF check > 0 THEN counted_write(x2, "check", check) ELSE x2
      unpadded_size == x.current_block_header_size + block_compressed_size + check
  IN [x3 EXCEPT !.index_records =
                   Append(@, [unpadded_size |-> unpadded_size,
                              uncompressed_size |-> x.block_uncompressed_size]),
                !.block_uncompressed_size = 0]

InitXz ==
  /\ client \in {"xz", "xzmt"}
  /\ num_workers = 1
  /\ num_work = U64Max
  /\ option_size \in {NoneSize} \cup (1..MaxUnitSize)
  /\ dict_size \in 1..MaxUnitSize
  /\ unit_size = clamped_size(option_size, dict_size)
  /\ PoolNew
  /\ ClientNew
  /\ lzma2 = Lzma2New
  /\ \E check \in CheckTypes : xz = XzNew(check)
  /\ DecodersNew

XzFrame ==
  UNCHANGED <<cfgVars, poolVars, workerVars, current_work_unit, lzma2, coder, mbi, lzip>>
XzHist == UNCHANGED <<returned, lastRet, callErr, stored, surfaced, units, closedBy,
                      stashedEver, finishCalled>>

\* XzWriter::write(buf): the stream header first
XzWrite ==
  /\ cpc = "idle" /\ client = "xz"
  /\ \E n \in 0..(MaxInput - accepted) : remaining' = n
  /\ xz' = write_stream_header(xz)
  /\ op' = "write"
  /\ cpc' = "xz_loop"
  /\ UNCHANGED <<accepted, opRet>>
  /\ XzFrame /\ XzHist

\* one turn of the while loop of write
XzWriteLoop ==
  /\ cpc = "xz_loop"
  /\ IF remaining = 0
       THEN /\ cpc' = "idle" /\ op' = "none"
            /\ opRet' = [op |-> "write", ok |-> TRUE]
            /\ UNCHANGED <<xz, remaining, accepted>>
       ELSE \E c \in 1..MaxCompressed :
              LET x1 == IF should_finish_block(xz) THEN finish_current_block(xz, c) ELSE xz
                  x2 == IF x1.block_uncompressed_size = 0 THEN prepare_next_block(x1) ELSE x1
                  max_write_size ==
                    IF unit_size # NoneSize
                      THEN Min(remaining, saturating_sub(unit_size, x2.block_uncompressed_size))
                      ELSE remaining
              IN /\ xz' = [x2 EXCEPT !.block_uncompressed_size = @ + max_write_size]
                 /\ remaining' = remaining - max_write_size
                 /\ accepted' = accepted + max_write_size
                 /\ UNCHANGED <<cpc, op, opRet>>
  /\ XzFrame /\ XzHist

\* XzWriter::finish: stream header, finish_current_block, index, footer
XzFinish ==
  /\ cpc = "idle" /\ client = "xz"
  /\ \E c \in 1..MaxCompressed :
       LET x1 == finish_current_block(write_stream_header(xz), c)
           x2 == counted_write(x1, "index", index_len(x1.index_records))
       IN xz' = counted_write(x2, "footer", stream_footer_len)
  /\ cpc' = "xz_done"
  /\ opRet' = [op |-> "finish", ok |-> TRUE]
  /\ UNCHANGED <<op, remaining, accepted>>
  /\ XzFrame /\ XzHist

\* XzWriterMt::finish with an empty current_work_unit and
\* next_index_to_dispatch() == 0: stream header, index and footer
XzMtFinishEmpty ==
  /\ cpc = "idle" /\ client = "xzmt"
  /\ current_work_unit = 0 /\ next_index_to_dispatch = 0
  /\ LET x1 == IF xz.header_written THEN xz
               ELSE [sink_write(xz, "header", stream_header_len)
                       EXCEPT !.header_written = TRUE]
         x2 == sink_write(x1, "index", index_len(x1.index_records))
     IN xz' = sink_write(x2, "footer", stream_footer_len)
  /\ cpc' = "xz_done"
  /\ opRet' = [op |-> "finish", ok |-> TRUE]
  /\ UNCHANGED <<op, remaining, accepted>>
  /\ XzFrame /\ XzHist

NextXz ==
  \/ XzWrite
  \/ XzWriteLoop
  \/ XzFinish
  \/ XzMtFinishEmpty

SpecXz == InitXz /\ [][NextXz]_vars

(***************************************************************************)
(* The decoders and the header coding use no pool and no writer.           *)
(***************************************************************************)
NoPool ==
  /\ num_workers = 1
  /\ num_work = U64Max
  /\ option_size = NoneSize
  /\ dict_size = 1
  /\ unit_size = NoneSize
  /\ PoolNew
  /\ ClientNew
  /\ lzma2 = Lzma2New
  /\ xz = XzNew("None")

NoPoolFrame == UNCHANGED <<cfgVars, poolVars, workerVars, ctlVars, histVars, lzma2, xz>>

(***************************************************************************)
(* state.rs: State, the state of the LZMA coder.  ops lists the updates    *)
(* applied since State::new or the last reset.                             *)
(***************************************************************************)
STATES == 12
LIT_STATES == 7
LIT_LIT == 0
SHORTREP_LIT_LIT == 3
LIT_MATCH == 7
LIT_LONGREP == 8
LIT_SHORTREP == 9
NONLIT_MATCH == 10
NONLIT_REP == 11
\* u8
U8 == 256

\* an update_literal that takes 6 off every st above SHORTREP_LIT_LIT
update_literal_six(st) ==
  IF st <= SHORTREP_LIT_LIT THEN LIT_LIT ELSE (st - 6) % U8

update_literal(st) ==
  IF st <= SHORTREP_LIT_LIT THEN LIT_LIT
  ELSE IF st <= LIT_SHORTREP THEN (st - 3) % U8
  ELSE (st - 6) % U8

update_match(st) == IF st < LIT_STATES THEN LIT_MATCH ELSE NONLIT_MATCH

\* an is_literal that takes LIT_STATES itself for a literal state
is_literal_inclusive(st) == st <= LIT_STATES

is_literal(st) == st < LIT_STATES

update_long_rep(st) == IF st < LIT_STATES THEN LIT_LONGREP ELSE NONLIT_REP

update_short_rep(st) == IF st < LIT_STATES THEN LIT_SHORTREP ELSE NONLIT_REP

\* State::new
StateNew == [state |-> 0, ops |-> <<>>]

InitState ==
  /\ client = "state"
  /\ NoPool
  /\ coder = StateNew
  /\ mbi = NoMbi
  /\ lzip = NoLzip

StateFrame == NoPoolFrame /\ UNCHANGED <<mbi, lzip>>

StateUpdate(name, next) ==
  /\ client = "state"
  /\ Len(coder.ops) < MaxOps
  /\ coder' = [state |-> next, ops |-> Append(coder.ops, name)]
  /\ StateFrame

UpdateLiteral == StateUpdate("literal", update_literal(coder.state))
UpdateMatch == StateUpdate("match", update_match(coder.state))
UpdateLongRep == StateUpdate("long_rep", update_long_rep(coder.state))
UpdateShortRep == StateUpdate("short_rep", update_short_rep(coder.state))

\* State::reset
StateReset ==
  /\ client = "state"
  /\ coder.ops # <<>>
  /\ coder' = [state |-> LIT_LIT, ops |-> <<>>]
  /\ StateFrame

NextState ==
  \/ StateReset
  \/ UpdateLiteral
  \/ UpdateMatch
  \/ UpdateLongRep
  \/ UpdateShortRep

SpecState == InitState /\ [][NextState]_vars

(***************************************************************************)
(* range_dec.rs: RangeDecoder with one probability of the decoder.  A u32  *)
(* is kept as its two 16-bit halves, so that every operation is the u32    *)
(* operation of the code, wrapping included.                               *)
(***************************************************************************)
\* 1 << 16
HALF == 65536
\* lib.rs: SHIFT_BITS, BIT_MODEL_TOTAL_BITS, BIT_MODEL_TOTAL, PROB_INIT, MOVE_BITS
SHIFT_BITS == 8
BIT_MODEL_TOTAL_BITS == 11
BIT_MODEL_TOTAL == 2048
PROB_INIT == 1024
MOVE_BITS == 5
\* (1 << MOVE_BITS) - 1
MOVE_BITS_MASK == 31

u32(hi, lo) == [hi |-> hi, lo |-> lo]
ZERO32 == u32(0, 0)
ONE32 == u32(0, 1)
\* 0xFFFFFFFF
MAX32 == u32(HALF - 1, HALF - 1)
\* normalize: 0x0100_0000
TOP_VALUE == u32(256, 0)

RECURSIVE pow2(_)
pow2(n) == IF n = 0 THEN 1 ELSE 2 * pow2(n - 1)

RECURSIVE and16(_, _, _)
and16(x, y, n) ==
  IF n = 0 THEN 0 ELSE (x % 2) * (y % 2) + 2 * and16(x \div 2, y \div 2, n - 1)

RECURSIVE or16(_, _, _)
or16(x, y, n) ==
  IF n = 0 THEN 0
  ELSE (IF x % 2 = 1 \/ y % 2 = 1 THEN 1 ELSE 0) + 2 * or16(x \div 2, y \div 2, n - 1)

\* a complement that changes nothing
not32_same(a) == a

\* a & b, a | b, !a
and32(a, b) == u32(and16(a.hi, b.hi, 16), and16(a.lo, b.lo, 16))
or32(a, b) == u32(or16(a.hi, b.hi, 16), or16(a.lo, b.lo, 16))
not32(a) == u32(HALF - 1 - a.hi, HALF - 1 - a.lo)

\* a.wrapping_add(b), a.wrapping_sub(b)
wrapping_add(a, b) ==
  u32((a.hi + b.hi + (a.lo + b.lo) \div HALF) % HALF, (a.lo + b.lo) % HALF)
wrapping_sub(a, b) ==
  u32((a.hi - b.hi - (IF a.lo < b.lo THEN 1 ELSE 0)) % HALF, (a.lo - b.lo) % HALF)

\* a << n and a >> n for n < 16
shl32(a, n) ==
  u32(((a.hi * pow2(n)) % HALF) + a.lo \div pow2(16 - n), (a.lo * pow2(n)) % HALF)
shr32(a, n) ==
  u32(a.hi \div pow2(n), (a.hi % pow2(n)) * pow2(16 - n) + a.lo \div pow2(n))

\* a * p for a below 1 << 21 and p below 1 << 11, the product wrapping
mul32(a, p) ==
  u32((a.hi * p + (a.lo * p) \div HALF) % HALF, (a.lo * p) % HALF)

\* a < b
lt32(a, b) == a.hi < b.hi \/ (a.hi = b.hi /\ a.lo < b.lo)

\* lib.rs: RC_BIT_MODEL_OFFSET = (1 << MOVE_BITS).wrapping_sub(1).wrapping_sub(BIT_MODEL_TOTAL)
RC_BIT_MODEL_OFFSET ==
  wrapping_sub(wrapping_sub(shl32(ONE32, MOVE_BITS), ONE32), u32(0, BIT_MODEL_TOTAL))

\* normalize; b is the byte read_u8 returns
normalize(rc, b) ==
  IF lt32(rc.range, TOP_VALUE)
    THEN [range |-> shl32(rc.range, SHIFT_BITS),
          code |-> or32(shl32(rc.code, SHIFT_BITS), u32(0, b))]
    ELSE rc

\* a probability update whose offset is -BIT_MODEL_TOTAL
prob_update_rounded_up(prob, mask) ==
  LET p == u32(0, prob)
      offset == and32(wrapping_sub(ZERO32, u32(0, BIT_MODEL_TOTAL)), not32(mask))
  IN wrapping_sub(p, shr32(wrapping_add(p, offset), MOVE_BITS)).lo

\* decode_bit: *prob = p.wrapping_sub((p.wrapping_add(offset)) >> MOVE_BITS) as u16
prob_update(prob, mask) ==
  LET p == u32(0, prob)
      offset == and32(RC_BIT_MODEL_OFFSET, not32(mask))
  IN wrapping_sub(p, shr32(wrapping_add(p, offset), MOVE_BITS)).lo

\* decode_bit after normalize
decode_bit(rc, prob) ==
  LET bound == mul32(shr32(rc.range, BIT_MODEL_TOTAL_BITS), prob)
      mask == wrapping_sub(ZERO32, IF lt32(rc.code, bound) THEN ZERO32 ELSE ONE32)
  IN [range |-> or32(and32(bound, not32(mask)), and32(wrapping_sub(rc.range, bound), mask)),
      code |-> wrapping_sub(rc.code, and32(bound, mask)),
      prob |-> prob_update(prob, mask),
      bit |-> and32(mask, ONE32).lo]

\* the values read_u32_be may find (0x00000001, 0x80000000, 0xFFFFFFFE), and
\* the bytes read_u8 may return
Codes == {u32(0, 1), u32(32768, 0), u32(HALF - 1, HALF - 2)}
Bytes == {0, 255}

\* RangeDecoder::new_stream, RangeDecoderBuffer::prepare
new_stream(code) == [range |-> MAX32, code |-> code]

InitRc ==
  /\ client = "rc"
  /\ NoPool
  /\ \E code \in Codes :
       coder = [rc |-> new_stream(code), prob |-> PROB_INIT, bit |-> 0, nbits |-> 0,
                before |-> new_stream(code), normalized |-> FALSE]
  /\ mbi = NoMbi
  /\ lzip = NoLzip

\* the next chunk: a new range decoder, the probability stays
RcPrepare ==
  /\ client = "rc"
  /\ coder.nbits > 0
  /\ \E code \in Codes :
       coder' = [coder EXCEPT !.rc = new_stream(code), !.nbits = 0, !.bit = 0,
                              !.before = new_stream(code), !.normalized = FALSE]
  /\ StateFrame

\* decode_bit(&mut prob); before keeps the range and code after normalize,
\* normalized whether normalize has read a byte
RcDecodeBit ==
  /\ client = "rc"
  /\ coder.nbits < MaxBits
  /\ \E b \in IF lt32(coder.rc.range, TOP_VALUE) THEN Bytes ELSE {0} :
       LET n == normalize(coder.rc, b)
           d == decode_bit(n, coder.prob)
       IN coder' = [rc |-> [range |-> d.range, code |-> d.code], prob |-> d.prob,
                    bit |-> d.bit, nbits |-> coder.nbits + 1, before |-> n,
                    normalized |-> lt32(coder.rc.range, TOP_VALUE)]
  /\ StateFrame

NextRc ==
  \/ RcPrepare
  \/ RcDecodeBit

SpecRc == InitRc /\ [][NextRc]_vars

(***************************************************************************)
(* xz.rs: the multibyte integers of XZ on the whole width of a u64.  A u64 *)
(* is kept as its nine 7-bit groups, lowest first, and bit 63 as a tenth   *)
(* group.                                                                  *)
(***************************************************************************)
\* a 7-bit group: 1 << 7
GROUP == 128
GROUPS == 10
\* let mut temp_buf = [0u8; 10]
TEMP_BUF_LEN == 10
\* parse_multibyte_integer: if shift >= 63
SHIFT_LIMIT == 63
GROUP_BITS == 7

ZERO64 == [g \in 1..GROUPS |-> 0]
\* value >> 7
shr7(value) == [g \in 1..GROUPS |-> IF g < GROUPS THEN value[g + 1] ELSE 0]
\* value as u8
as_u8(value) == value[1] + GROUP * (value[2] % 2)
\* value >= 0x80, value > 0
ge_0x80(value) == \E g \in 2..GROUPS : value[g] # 0
gt_0(value) == \E g \in 1..GROUPS : value[g] # 0
\* value > (u64::MAX / 2)
gt_half_max(value) == value[GROUPS] # 0
\* result | (bits << shift) for 7 bits and a shift that is a multiple of 7
\* below 63
or_shifted(result, bits, shift) ==
  [result EXCEPT ![(shift \div GROUP_BITS) + 1] = or16(@, bits, GROUP_BITS)]

\* a limit that stops before the ninth byte
too_large_early(shift) == shift >= SHIFT_LIMIT - GROUP_BITS

\* parse_multibyte_integer: if shift >= 63
too_large(shift) == shift >= SHIFT_LIMIT

\* parse_multibyte_integer: the loop from byte i on
RECURSIVE parse_loop(_, _, _, _)
parse_loop(data, i, result, shift) ==
  IF i > Len(data) THEN [ok |-> FALSE, value |-> ZERO64]
  ELSE IF too_large(shift) THEN [ok |-> FALSE, value |-> ZERO64]
  ELSE LET r == or_shifted(result, and16(data[i], GROUP - 1, 8), shift)
       IN IF and16(data[i], GROUP, 8) = 0
            THEN [ok |-> TRUE, value |-> r]
            ELSE parse_loop(data, i + 1, r, shift + GROUP_BITS)

parse_multibyte_integer(data) == parse_loop(data, 1, ZERO64, 0)

\* count_multibyte_integer_size_for_value on a u64
RECURSIVE count_loop64(_)
count_loop64(value) == IF gt_0(value) THEN 1 + count_loop64(shr7(value)) ELSE 0
count_multibyte_integer_size_for_value64(value) ==
  IF value = ZERO64 THEN 1 ELSE count_loop64(value)

\* encode_multibyte_integer on a u64: the bytes put into a buffer of len
\* bytes after i of them
RECURSIVE encode_loop(_, _, _)
encode_loop(value, i, len) ==
  IF ge_0x80(value) /\ i < len
    THEN <<or16(as_u8(value), GROUP, 8)>> \o encode_loop(shr7(value), i + 1, len)
    ELSE IF i < len THEN <<as_u8(value)>> ELSE <<>>

encode_multibyte_integer64(value, len) ==
  IF gt_half_max(value) THEN [ok |-> FALSE, buf |-> <<>>]
  ELSE [ok |-> TRUE, buf |-> encode_loop(value, 0, len)]

\* the values: every group empty or full, the lowest and the highest group
\* also 1, with or without bit 63
GroupValues == {0, GROUP - 1}
Values ==
  {v \in [1..GROUPS -> GroupValues \cup {1}] :
     /\ v[GROUPS] \in {0, 1}
     /\ \A g \in 2..(GROUPS - 2) : v[g] \in GroupValues}

InitMbi ==
  /\ client = "mbi"
  /\ NoPool
  /\ coder = NoCoder
  /\ \E v \in Values :
       mbi = [pc |-> "value", value |-> v, ok |-> TRUE, buf |-> <<>>, count |-> 0,
              parsed |-> ZERO64]
  /\ lzip = NoLzip

MbiFrame == NoPoolFrame /\ UNCHANGED <<coder, lzip>>

\* encode_multibyte_integer(value, &mut temp_buf)
MbiEncode ==
  /\ client = "mbi" /\ mbi.pc = "value"
  /\ LET e == encode_multibyte_integer64(mbi.value, TEMP_BUF_LEN)
     IN mbi' = [mbi EXCEPT !.pc = IF e.ok THEN "encoded" ELSE "failed",
                           !.ok = e.ok, !.buf = e.buf]
  /\ MbiFrame

\* count_multibyte_integer_size_for_value(value)
MbiCount ==
  /\ client = "mbi" /\ mbi.pc = "encoded"
  /\ mbi' = [mbi EXCEPT !.pc = "counted",
                        !.count = count_multibyte_integer_size_for_value64(mbi.value)]
  /\ MbiFrame

\* parse_multibyte_integer(&buf[..encoded_size])
MbiParse ==
  /\ client = "mbi" /\ mbi.pc = "counted"
  /\ LET r == parse_multibyte_integer(mbi.buf)
     IN mbi' = [mbi EXCEPT !.pc = "parsed", !.ok = r.ok, !.parsed = r.value]
  /\ MbiFrame

NextMbi ==
  \/ MbiEncode
  \/ MbiCount
  \/ MbiParse

SpecMbi == InitMbi /\ [][NextMbi]_vars

(***************************************************************************)
(* lzip.rs: the dictionary size byte of an lzip member header              *)
(***************************************************************************)
\* 4 * 1024 and 512 * 1024 * 1024
MIN_DICT_SIZE == 4096
MAX_DICT_SIZE == 536870912
\* (12..=29).contains(&base_log2)
MIN_BASE_LOG2 == 12
MAX_BASE_LOG2 == 29
\* encoded & 0x1F, encoded >> 5, fraction_num > 7, base_size >> 4
BASE_MASK == 31
FRACTION_SHIFT == 5
MAX_FRACTION == 7
FRACTION_BITS == 4
\* an io::Result of decode_dict_size
DictErr == [ok |-> FALSE, dict_size |-> 0]
DictOk(n) == [ok |-> TRUE, dict_size |-> n]

\* a range test that lets every size pass
dict_size_out_of_range_never(n) == FALSE

\* !(MIN_DICT_SIZE..=MAX_DICT_SIZE).contains(&dict_size)
dict_size_out_of_range(n) == ~(n >= MIN_DICT_SIZE /\ n <= MAX_DICT_SIZE)

decode_dict_size(encoded) ==
  LET base_log2 == and16(encoded, BASE_MASK, 8)
      fraction_num == encoded \div pow2(FRACTION_SHIFT)
      base_size == pow2(base_log2)
      fraction_size == IF base_log2 >= FRACTION_BITS
                         THEN (base_size \div pow2(FRACTION_BITS)) * fraction_num
                         ELSE 0
      size == base_size - fraction_size
  IN IF ~(base_log2 >= MIN_BASE_LOG2 /\ base_log2 <= MAX_BASE_LOG2) THEN DictErr
     ELSE IF fraction_num > MAX_FRACTION THEN DictErr
     ELSE IF dict_size_out_of_range(size) THEN DictErr
     ELSE DictOk(size)

InitDict ==
  /\ client = "dict"
  /\ NoPool
  /\ coder = NoCoder
  /\ mbi = NoMbi
  /\ \E encoded \in 0..(U8 - 1) :
       lzip = [pc |-> "byte", encoded |-> encoded, result |-> DictErr]

\* decode_dict_size(dict_size_byte)
DecodeDictSize ==
  /\ client = "dict" /\ lzip.pc = "byte"
  /\ lzip' = [lzip EXCEPT !.pc = "decoded", !.result = decode_dict_size(lzip.encoded)]
  /\ NoPoolFrame
  /\ UNCHANGED <<coder, mbi>>

SpecDict == InitDict /\ [][DecodeDictSize]_vars

(***************************************************************************)
(* lzip.rs: encode_dict_size, and the byte it yields taken through         *)
(* decode_dict_size as a reader of the member header does                  *)
(***************************************************************************)
\* how far the sizes tried lie from a size the format represents exactly
MaxOffset == 1

\* 32 - dict_size.leading_zeros() - 1, for dict_size > 0
RECURSIVE floor_log2(_)
floor_log2(n) == IF n <= 1 THEN 0 ELSE 1 + floor_log2(n \div 2)

\* u32::div_ceil
div_ceil(a, b) == (a + b - 1) \div b

\* an io::Result of encode_dict_size
EncodeErr == [ok |-> FALSE, byte |-> 0]
EncodeOk(b) == [ok |-> TRUE, byte |-> b]

encode_dict_size(size) ==
  IF dict_size_out_of_range(size) THEN EncodeErr
  ELSE LET floor == floor_log2(size)
           smallest == IF pow2(floor) < size THEN floor + 1 ELSE floor
           base_log2 == IF smallest < MIN_BASE_LOG2 THEN MIN_BASE_LOG2 ELSE smallest
           base_size == pow2(base_log2)
           diff == base_size - size
           fraction_unit == base_size \div pow2(FRACTION_BITS)
           fraction_num == IF base_size > size /\ fraction_unit > 0
                             THEN div_ceil(diff, fraction_unit)
                             ELSE 0
       IN  IF base_log2 > MAX_BASE_LOG2 THEN EncodeErr
           ELSE IF fraction_num > MAX_FRACTION
             THEN IF base_log2 + 1 > MAX_BASE_LOG2 THEN EncodeErr
                  ELSE EncodeOk(and16(base_log2 + 1, BASE_MASK, 8))
           ELSE EncodeOk((fraction_num * pow2(FRACTION_SHIFT)
                            + and16(base_log2, BASE_MASK, 8)) % U8)

\* the sizes the format represents exactly
ExactSizes ==
  {pow2(b) - f * pow2(b - FRACTION_BITS) :
     b \in MIN_BASE_LOG2..MAX_BASE_LOG2, f \in 0..MAX_FRACTION}

\* lzma_options.dict_size as given to an LzipWriter: the exact sizes and
\* their neighbours, in and out of [MIN_DICT_SIZE, MAX_DICT_SIZE]
DictSizes == {s + e : s \in ExactSizes, e \in (0 - MaxOffset)..MaxOffset}

InitDictCodec ==
  /\ client = "dictcodec"
  /\ NoPool
  /\ coder = NoCoder
  /\ mbi = NoMbi
  /\ \E size \in DictSizes :
       lzip = [pc |-> "size", dict_size |-> size, encoded |-> EncodeErr,
               result |-> DictErr]

\* LzipWriter::start_new_member: encode_dict_size(self.options.lzma_options.dict_size)
EncodeDictSize ==
  /\ client = "dictcodec" /\ lzip.pc = "size"
  /\ lzip' = [lzip EXCEPT !.pc = "encoded", !.encoded = encode_dict_size(lzip.dict_size)]
  /\ NoPoolFrame
  /\ UNCHANGED <<coder, mbi>>

\* LZIPHeader::parse of the header written: decode_dict_size(dict_size_byte)
DecodeEncoded ==
  /\ client = "dictcodec" /\ lzip.pc = "encoded" /\ lzip.encoded.ok
  /\ lzip' = [lzip EXCEPT !.pc = "decoded", !.result = decode_dict_size(lzip.encoded.byte)]
  /\ NoPoolFrame
  /\ UNCHANGED <<coder, mbi>>

NextDictCodec == EncodeDictSize \/ DecodeEncoded

SpecDictCodec == InitDictCodec /\ [][NextDictCodec]_vars

(***************************************************************************)
(* lzip/reader.rs: LzipReader over a stream of members.  A member of the   *)
(* stream is its header, the number of bytes its LZMA stream decodes to    *)
(* and the condition of its body: "ok", "corrupt" (the LZMA stream does    *)
(* not decode) or "bad_trailer" (the trailer does not match the data).     *)
(* The lzip record holds the reader and, of its last read, the return      *)
(* value and the finished flag the call has found.                         *)
(***************************************************************************)
MaxMembers == 2
MaxData == 1
MaxReads == 4

LZIP_MAGIC == "LZIP"
LZIP_VERSION == 1
HEADER_SIZE == 6

\* a good header (0x0C: 4 KiB), one with a wrong magic, one with a wrong
\* version, and two with a dictionary-size byte decode_dict_size refuses
\* (0x0B: base_log2 = 11; 0x2C: 3840 bytes)
Headers ==
  { [magic |-> "LZIP", version |-> 1, dict_size_byte |-> 12],
    [magic |-> "LZIQ", version |-> 1, dict_size_byte |-> 12],
    [magic |-> "LZIP", version |-> 0, dict_size_byte |-> 12],
    [magic |-> "LZIP", version |-> 1, dict_size_byte |-> 11],
    [magic |-> "LZIP", version |-> 1, dict_size_byte |-> 44] }

Members == [header : Headers, data : 0..MaxData, body : {"ok", "corrupt", "bad_trailer"}]

\* Err(_) of LZIPHeader::parse, after `used` bytes of the input
HeaderErr(used) == [ok |-> FALSE, version |-> 0, dict_size |-> 0, used |-> used]

\* LZIPHeader::parse(&mut reader): read_exact fails at the end of the input
LZIPHeader_parse(reader) ==
  IF reader = <<>> THEN HeaderErr(0)
  ELSE LET header == Head(reader).header
           decoded == decode_dict_size(header.dict_size_byte)
       IN  IF header.magic # LZIP_MAGIC THEN HeaderErr(4)
           ELSE IF header.version # LZIP_VERSION THEN HeaderErr(5)
           ELSE IF ~decoded.ok THEN HeaderErr(HEADER_SIZE)
           ELSE [ok |-> TRUE, version |-> header.version,
                 dict_size |-> decoded.dict_size, used |-> HEADER_SIZE]

\* Option<LzmaReader>::None
NoLzmaReader == [active |-> FALSE, left |-> 0, body |-> "ok", dict_size |-> 0]

\* LzipReader::new(inner)
LzipReaderNew(inner) ==
  [pc |-> "reader", inner |-> inner, skipped |-> 0, lzma_reader |-> NoLzmaReader,
   finished |-> FALSE, data_size |-> 0,
   ret |-> "none", finished_at_entry |-> FALSE, calls |-> 0]

\* start_next_member(): any error of the header parse is taken for the end
\* of the input; the reader is put back where the parse has left it
start_next_member(r) ==
  LET header == LZIPHeader_parse(r.inner) IN
  IF ~header.ok
    THEN [r |-> [r EXCEPT !.skipped = header.used], ret |-> "Ok(false)"]
  ELSE IF header.version # 1
    THEN [r |-> r, ret |-> "InvalidInput"]
  ELSE [r |-> [r EXCEPT !.inner = Tail(r.inner),
                        !.lzma_reader = [active |-> TRUE, left |-> Head(r.inner).data,
                                         body |-> Head(r.inner).body,
                                         dict_size |-> header.dict_size],
                        !.data_size = 0],
        ret |-> "Ok(true)"]

\* finish_current_member(): the trailer is checked against the CRC32, the
\* data size and the member size
finish_current_member(r) ==
  [r |-> [r EXCEPT !.lzma_reader = NoLzmaReader],
   ret |-> IF r.lzma_reader.body = "bad_trailer" THEN "InvalidData" ELSE "Ok(())"]

\* what read makes of start_next_member()?: Ok(false) ends the stream
RECURSIVE read(_)
after_start(started) ==
  IF started.ret = "Ok(false)"
    THEN [r |-> [started.r EXCEPT !.finished = TRUE], ret |-> "Ok(0)"]
  ELSE IF started.ret = "Ok(true)" THEN read(started.r)
  ELSE started

\* read(buf) with a buffer that is not empty: the loop of the function
read(r) ==
  IF r.lzma_reader.active
    THEN IF r.lzma_reader.body = "corrupt"
           THEN [r |-> r, ret |-> "InvalidData"]
         ELSE IF r.lzma_reader.left > 0
           THEN [r |-> [r EXCEPT !.lzma_reader.left = @ - 1, !.data_size = @ + 1],
                 ret |-> "Ok(1)"]
         ELSE LET finish == finish_current_member(r) IN
              IF finish.ret # "Ok(())" THEN finish
              ELSE after_start(start_next_member(finish.r))
  ELSE IF r.finished THEN [r |-> r, ret |-> "Ok(0)"]
  ELSE after_start(start_next_member(r))

InitLzip ==
  /\ client = "lzip"
  /\ NoPool
  /\ coder = NoCoder
  /\ mbi = NoMbi
  /\ \E n \in 0..MaxMembers : \E inner \in [1..n -> Members] :
       lzip = LzipReaderNew(inner)

\* <LzipReader as Read>::read(buf) with a buffer of len bytes
LzipRead ==
  /\ client = "lzip" /\ lzip.pc = "reader"
  /\ lzip.calls < MaxReads
  /\ \E len \in 0..MaxData :
       LET call == IF len = 0 THEN [r |-> lzip, ret |-> "Ok(0)"] ELSE read(lzip)
       IN  lzip' = [call.r EXCEPT !.ret = call.ret,
                                  !.finished_at_entry = lzip.finished,
                                  !.calls = lzip.calls + 1]
  /\ NoPoolFrame
  /\ UNCHANGED <<coder, mbi>>

SpecLzip == InitLzip /\ [][LzipRead]_vars

(***************************************************************************)
(* work_queue.rs: WorkStealingQueue on its own.  One thread pushes the     *)
(* items 0, 1, .. and closes the queue; num_workers threads hold a         *)
(* WorkerHandle each and call steal and try_steal.  units lists the items  *)
(* pushed, returned the items popped, in the order of the pops; wpc[w] is  *)
(* the place of handle w in its call or, between calls, what the last call *)
(* returned ("some", "none" of steal, "try_some", "try_none" of try_steal). *)
(***************************************************************************)
\* queue.pop_front() taken from the wrong end
pop_back(queue) ==
  [item |-> queue[Len(queue)], rest |-> SubSeq(queue, 1, Len(queue) - 1)]

\* queue.pop_front() of a queue that is not empty
pop_front(queue) == [item |-> Head(queue), rest |-> Tail(queue)]

\* the handle is in no call
Callable(w) == wpc[w] \in {"idle", "some", "none", "try_some", "try_none"}

\* WorkStealingQueue::new and worker() for every handle
InitQueue ==
  /\ client = "queue"
  /\ num_workers \in 1..MaxThreads
  /\ num_work = U64Max
  /\ option_size = NoneSize /\ dict_size = 1 /\ unit_size = NoneSize
  /\ work_queue = <<>>
  /\ closed = FALSE
  /\ chan = <<>>
  /\ rx_alive = TRUE
  /\ next_index_to_dispatch = 0
  /\ next_index_to_return = 0
  /\ last_sequence_id = NoneSeq
  /\ out_of_order_results = {}
  /\ shutdown_flag = FALSE
  /\ error_store = NoErr
  /\ state = "Dispatching"
  /\ active_workers = 0
  /\ spawned = num_workers
  /\ wpc = [w \in Threads |-> IF w <= num_workers THEN "idle" ELSE "unspawned"]
  /\ witem = [w \in Threads |-> NoItem]
  /\ ClientNew
  /\ lzma2 = Lzma2New
  /\ xz = XzNew("None")
  /\ DecodersNew

QueueFrame ==
  /\ UNCHANGED <<cfgVars, swVars, chan, rx_alive, next_index_to_return, last_sequence_id,
                 out_of_order_results, shutdown_flag, error_store, state, active_workers,
                 spawned>>
  /\ UNCHANGED <<remaining, current_work_unit, accepted, lastRet, callErr, stored, surfaced,
                 closedBy, stashedEver, finishCalled>>

\* push: if self.inner.closed.load(..) { return false; }
QueuePush ==
  /\ client = "queue" /\ cpc = "idle"
  /\ next_index_to_dispatch < MaxWork
  /\ IF closed
       THEN opRet' = [op |-> "push", ok |-> FALSE] /\ UNCHANGED <<cpc, op>>
       ELSE cpc' = "push_lock" /\ op' = "push" /\ UNCHANGED opRet
  /\ UNCHANGED <<work_queue, closed, next_index_to_dispatch, wpc, witem, returned, units>>
  /\ QueueFrame

\* push: queue.push_back(item) with the queue locked
QueuePushBack ==
  /\ cpc = "push_lock"
  /\ MutexFree
  /\ work_queue' = Append(work_queue, Item(next_index_to_dispatch, next_index_to_dispatch, 1))
  /\ units' = Append(units, Item(next_index_to_dispatch, next_index_to_dispatch, 1))
  /\ next_index_to_dispatch' = next_index_to_dispatch + 1
  /\ cpc' = "push_notify"
  /\ UNCHANGED <<closed, wpc, witem, returned, op, opRet>>
  /\ QueueFrame

\* push: self.inner.condvar.notify_one(); true
QueuePushNotify ==
  /\ cpc = "push_notify"
  /\ wpc' \in notify_one(wpc)
  /\ cpc' = "idle"
  /\ op' = "none"
  /\ opRet' = [op |-> "push", ok |-> TRUE]
  /\ UNCHANGED <<work_queue, closed, next_index_to_dispatch, witem, returned, units>>
  /\ QueueFrame

\* close: self.inner.closed.store(true, ..), the queue not locked
QueueClose ==
  /\ client = "queue" /\ cpc = "idle"
  /\ ~closed
  /\ closed' = TRUE
  /\ cpc' = "close_notify"
  /\ op' = "close"
  /\ UNCHANGED <<work_queue, next_index_to_dispatch, wpc, witem, returned, units, opRet>>
  /\ QueueFrame

\* close: self.inner.condvar.notify_all()
QueueCloseNotify ==
  /\ cpc = "close_notify"
  /\ wpc' = notify_all(wpc)
  /\ cpc' = "idle"
  /\ op' = "none"
  /\ opRet' = [op |-> "close", ok |-> TRUE]
  /\ UNCHANGED <<work_queue, closed, next_index_to_dispatch, witem, returned, units>>
  /\ QueueFrame

\* steal is called: self.inner.queue.lock()
QueueStealCall(w) ==
  /\ client = "queue" /\ Callable(w)
  /\ wpc' = [wpc EXCEPT ![w] = "steal"]
  /\ UNCHANGED <<work_queue, closed, next_index_to_dispatch, witem, returned, units,
                 cpc, op, opRet>>
  /\ QueueFrame

\* steal, one turn of its loop with the queue locked: Some(item) of
\* pop_front, else None when the queue is closed, else on to the wait
QueueSteal(w) ==
  /\ client = "queue" /\ wpc[w] = "steal"
  /\ MutexFree
  /\ IF work_queue # <<>>
       THEN /\ witem' = [witem EXCEPT ![w] = pop_front(work_queue).item]
            /\ work_queue' = pop_front(work_queue).rest
            /\ returned' = Append(returned, pop_front(work_queue).item)
            /\ wpc' = [wpc EXCEPT ![w] = "some"]
       ELSE /\ wpc' = [wpc EXCEPT ![w] = IF closed THEN "none" ELSE "prewait"]
            /\ UNCHANGED <<witem, work_queue, returned>>
  /\ UNCHANGED <<closed, next_index_to_dispatch, units, cpc, op, opRet>>
  /\ QueueFrame

\* try_steal: self.inner.queue.lock().unwrap().pop_front()
QueueTrySteal(w) ==
  /\ client = "queue" /\ Callable(w)
  /\ MutexFree
  /\ IF work_queue # <<>>
       THEN /\ witem' = [witem EXCEPT ![w] = pop_front(work_queue).item]
            /\ work_queue' = pop_front(work_queue).rest
            /\ returned' = Append(returned, pop_front(work_queue).item)
            /\ wpc' = [wpc EXCEPT ![w] = "try_some"]
       ELSE /\ wpc' = [wpc EXCEPT ![w] = "try_none"]
            /\ UNCHANGED <<witem, work_queue, returned>>
  /\ UNCHANGED <<closed, next_index_to_dispatch, units, cpc, op, opRet>>
  /\ QueueFrame

\* steal: queue = self.inner.condvar.wait(queue), and the wakeup std allows
\* without a notification
QueueWait(w) == client = "queue" /\ WorkerWait(w)
QueueSpuriousWake(w) == client = "queue" /\ WorkerSpuriousWake(w)

NextQueue ==
  \/ QueuePush
  \/ QueuePushBack
  \/ QueuePushNotify
  \/ QueueClose
  \/ QueueCloseNotify
  \/ \E w \in Threads : QueueStealCall(w)
  \/ \E w \in Threads : QueueSteal(w)
  \/ \E w \in Threads : QueueTrySteal(w)
  \/ \E w \in Threads : QueueWait(w)
  \/ \E w \in Threads : QueueSpuriousWake(w)

SpecQueue == InitQueue /\ [][NextQueue]_vars

(***************************************************************************)
(* enc/lzma_writer.rs: LzmaWriter.  encoded counts the bytes given to the  *)
(* encoder by fill_window; call, len, ret and the two before fields        *)
(* describe the last call: its name, the length of its buffer, what it     *)
(* returned and the counters it started from.  The sink takes every byte.  *)
(***************************************************************************)
\* largest expected_uncompressed_size given to LzmaWriter::new
MaxExpected == 4
\* largest buffer given to one write
MaxBuf == 3
\* Option<u64>::None of expected_uncompressed_size
NoExpected == -1

\* a test that refuses a write only when the counter is past the expected size already
exceeds_expected_late(exp, current, len) == exp < current

\* write: if exp < self.current_uncompressed_size + buf.len() as u64
exceeds_expected(exp, current, len) == exp < current + len

\* finish: if exp != self.current_uncompressed_size
size_mismatch(exp, current) == exp # current

\* LzmaWriter::new
LzmaWriterNew(use_end_marker, expected) ==
  [pc |-> "writer", use_end_marker |-> use_end_marker,
   expected_uncompressed_size |-> expected, current_uncompressed_size |-> 0,
   encoded |-> 0, end_marker |-> FALSE,
   call |-> "none", len |-> 0, ret |-> "none", before_size |-> 0, before_encoded |-> 0]

InitLzmaWriter ==
  /\ client = "lzma"
  /\ NoPool
  /\ \E use_end_marker \in BOOLEAN, expected \in {NoExpected} \cup (0..MaxExpected) :
       coder = LzmaWriterNew(use_end_marker, expected)
  /\ mbi = NoMbi
  /\ lzip = NoLzip

\* write(buf) with a buffer of len bytes
LzmaWrite ==
  /\ client = "lzma" /\ coder.pc = "writer"
  /\ \E len \in 0..MaxBuf :
       /\ coder.current_uncompressed_size + len <= MaxExpected + 1
       /\ LET w == [coder EXCEPT !.call = "write", !.len = len,
                                 !.before_size = coder.current_uncompressed_size,
                                 !.before_encoded = coder.encoded]
          IN  IF /\ coder.expected_uncompressed_size # NoExpected
                 /\ exceeds_expected(coder.expected_uncompressed_size,
                                     coder.current_uncompressed_size, len)
                THEN coder' = [w EXCEPT !.ret = "InvalidInput"]
                ELSE coder' = [w EXCEPT !.current_uncompressed_size = @ + len,
                                        !.encoded = @ + len,
                                        !.ret = "Ok"]
  /\ NoPoolFrame
  /\ UNCHANGED <<mbi, lzip>>

\* finish(self): the writer is consumed
LzmaFinish ==
  /\ client = "lzma" /\ coder.pc = "writer"
  /\ LET w == [coder EXCEPT !.pc = "finished", !.call = "finish", !.len = 0,
                            !.before_size = coder.current_uncompressed_size,
                            !.before_encoded = coder.encoded]
     IN  IF /\ coder.expected_uncompressed_size # NoExpected
            /\ size_mismatch(coder.expected_uncompressed_size,
                             coder.current_uncompressed_size)
           THEN coder' = [w EXCEPT !.ret = "InvalidInput"]
           ELSE coder' = [w EXCEPT !.end_marker = coder.use_end_marker, !.ret = "Ok"]
  /\ NoPoolFrame
  /\ UNCHANGED <<mbi, lzip>>

NextLzmaWriter == LzmaWrite \/ LzmaFinish

SpecLzmaWriter == InitLzmaWriter /\ [][NextLzmaWriter]_vars

(***************************************************************************)
(* lzip/writer.rs: LzipWriter.  trailers lists the data_size of the        *)
(* trailer of every member closed so far, slices the lengths of the slices *)
(* handed to LzmaWriter::write, accepted counts the bytes the calls of     *)
(* write have taken.                                                       *)
(***************************************************************************)
\* LzipWriter::new: member_size raised to the dictionary size
LzipWriterNew(member_size) ==
  [pc |-> "writer", member_size |-> member_size, header_written |-> FALSE,
   finished |-> FALSE, uncompressed_size |-> 0, current_member_uncompressed_size |-> 0,
   trailers |-> <<>>, slices |-> <<>>, accepted |-> 0, ret |-> "none"]

\* LzipWriter::should_finish_member
should_finish_member(w) ==
  w.member_size # NoneSize /\ w.current_member_uncompressed_size >= w.member_size

\* LzipWriter::start_new_member: header, a new LzmaWriter, the counts reset
LzipWriter_start_new_member(w) ==
  [w EXCEPT !.header_written = TRUE, !.current_member_uncompressed_size = 0,
            !.uncompressed_size = 0]

\* LzipWriter::finish_current_member: the trailer with self.uncompressed_size
LzipWriter_finish_current_member(w) ==
  [w EXCEPT !.trailers = Append(@, w.uncompressed_size), !.header_written = FALSE]

\* a write that gives the whole buffer to the current member
bytes_to_write_unbounded(w, len) == len

\* write: (remaining.len() as u64).min(remaining_in_member)
bytes_to_write(w, len) ==
  IF w.member_size # NoneSize
    THEN Min(len, saturating_sub(w.member_size, w.current_member_uncompressed_size))
    ELSE len

\* the while loop of write over a buffer of len bytes (LzmaWriter::write
\* takes the whole slice it is given)
RECURSIVE LzipWriter_write_loop(_, _)
LzipWriter_write_loop(w, len) ==
  IF len = 0 THEN w
  ELSE LET closed_full == IF should_finish_member(w) /\ w.header_written
                            THEN LzipWriter_finish_current_member(w) ELSE w
           started == IF ~closed_full.header_written
                        THEN LzipWriter_start_new_member(closed_full) ELSE closed_full
           bytes_written == bytes_to_write(started, len)
       IN  IF bytes_written = 0
             THEN LzipWriter_write_loop(LzipWriter_finish_current_member(started), len)
           ELSE LzipWriter_write_loop(
                  [started EXCEPT !.slices = Append(@, bytes_written),
                                  !.uncompressed_size = @ + bytes_written,
                                  !.current_member_uncompressed_size = @ + bytes_written,
                                  !.accepted = @ + bytes_written],
                  len - bytes_written)

InitLzipWriter ==
  /\ client = "lzipwriter"
  /\ NoPool
  /\ coder = NoCoder
  /\ mbi = NoMbi
  /\ \E size \in {NoneSize} \cup (1..MaxUnitSize), dict \in 1..MaxUnitSize :
       lzip = LzipWriterNew(IF size = NoneSize THEN NoneSize
                            ELSE effective_size(size, dict))

\* <LzipWriter as Write>::write(buf) with a buffer of len bytes
LzipWrite ==
  /\ client = "lzipwriter" /\ lzip.pc = "writer"
  /\ \E len \in 0..MaxBuf :
       /\ lzip.accepted + len <= MaxInput
       /\ lzip' = [LzipWriter_write_loop(lzip, len) EXCEPT !.ret = "write"]
  /\ NoPoolFrame
  /\ UNCHANGED <<coder, mbi>>

\* LzipWriter::finish(self)
LzipFinish ==
  /\ client = "lzipwriter" /\ lzip.pc = "writer"
  /\ LET started == IF ~lzip.header_written THEN LzipWriter_start_new_member(lzip)
                    ELSE lzip
     IN  lzip' = [LzipWriter_finish_current_member(started)
                    EXCEPT !.finished = TRUE, !.pc = "finished", !.ret = "finish"]
  /\ NoPoolFrame
  /\ UNCHANGED <<coder, mbi>>

NextLzipWriter == LzipWrite \/ LzipFinish

SpecLzipWriter == InitLzipWriter /\ [][NextLzipWriter]_vars

(***************************************************************************)
(* lzma2_reader_mt.rs: how Lzma2ReaderMt cuts its input into work units.   *)
(* A chunk is written as its control byte; current_work_unit and the data  *)
(* of a unit are sequences of control bytes, the pushed 0x00 among them.   *)
(***************************************************************************)
\* the control bytes that can follow each other in the input
SplitControls ==
  {ControlRawResetDict, ControlRaw, ControlLzma, ControlResetDict, ControlInvalid}

\* the inputs: up to MaxWork chunks, the last of them possibly cut short by the
\* end of the input, or else with the end marker 0x00 behind them or without
SplitInputs ==
  {in \in [controls : UNION {[1..n -> SplitControls] : n \in 0..MaxWork},
           cut : BOOLEAN, end : BOOLEAN] :
     /\ in.cut => (in.controls # <<>> /\ ~in.end
                   /\ ~is_invalid_control(in.controls[Len(in.controls)]))}

\* Lzma2ReaderMt::new as far as the splitting goes
SplitReaderNew(in) ==
  [pc |-> "split", inner |-> in, pos |-> 0, current_work_unit |-> <<>>,
   units |-> <<>>, next_sequence_to_dispatch |-> 0, state |-> "Reading",
   ret |-> "none"]

\* send_work_unit: nothing for an empty unit, else the unit is pushed with
\* next_sequence_to_dispatch, which is then incremented
send_work_unit(r) ==
  IF r.current_work_unit = <<>> THEN r
  ELSE [r EXCEPT !.units = Append(@, [seq |-> r.next_sequence_to_dispatch,
                                      data |-> r.current_work_unit]),
                 !.current_work_unit = <<>>,
                 !.next_sequence_to_dispatch = @ + 1]

\* read_and_dispatch_chunk
read_and_dispatch_chunk(r) ==
  IF r.pos = Len(r.inner.controls)
    THEN IF r.inner.end
           THEN \* control == 0x00: push(0x00), send_work_unit, Ok(false)
                [send_work_unit([r EXCEPT !.current_work_unit = Append(@, ControlEnd)])
                   EXCEPT !.ret = "Ok(false)"]
           ELSE \* UnexpectedEof on the control byte: Ok(false)
                [r EXCEPT !.ret = "Ok(false)"]
    ELSE LET control == r.inner.controls[r.pos + 1]
             split == IF is_independent_chunk(control) /\ r.current_work_unit # <<>>
                        THEN send_work_unit(
                               [r EXCEPT !.current_work_unit = Append(@, ControlEnd)])
                        ELSE r
             pushed == [split EXCEPT !.current_work_unit = Append(@, control),
                                     !.pos = @ + 1]
         IN  IF is_invalid_control(control)
               THEN [pushed EXCEPT !.ret = "Err(InvalidData)"]
             ELSE IF r.inner.cut /\ r.pos + 1 = Len(r.inner.controls)
               THEN \* read_exact of the header or of the chunk data fails
                    [pushed EXCEPT !.ret = "Err(UnexpectedEof)"]
             ELSE [pushed EXCEPT !.ret = "Ok(true)"]

InitSplit ==
  /\ client = "lzma2split"
  /\ num_workers = 1
  /\ num_work = U64Max
  /\ option_size = NoneSize
  /\ dict_size = 1
  /\ unit_size = NoneSize
  /\ PoolNew
  /\ ClientNew
  /\ xz = XzNew("None")
  /\ DecodersNew
  /\ \E in \in SplitInputs : lzma2 = SplitReaderNew(in)

SplitFrame == UNCHANGED <<cfgVars, poolVars, workerVars, ctlVars, histVars, xz, coder, mbi, lzip>>

\* get_next_uncompressed_chunk, State::Reading with an empty queue: one call of
\* read_and_dispatch_chunk; Ok(true) loops, Err sets State::Error
SplitReadChunk ==
  /\ client = "lzma2split" /\ lzma2.pc = "split" /\ lzma2.state = "Reading"
  /\ LET r == read_and_dispatch_chunk(lzma2) IN
       lzma2' = IF r.ret = "Ok(true)" THEN r
                ELSE IF r.ret = "Ok(false)" THEN [r EXCEPT !.pc = "eof"]
                ELSE [r EXCEPT !.state = "Error"]
  /\ SplitFrame

\* Ok(false): send_work_unit for what is left, then State::Draining
SplitEof ==
  /\ client = "lzma2split" /\ lzma2.pc = "eof"
  /\ lzma2' = [send_work_unit(lzma2) EXCEPT !.pc = "split", !.state = "Draining"]
  /\ SplitFrame

NextSplit == SplitReadChunk \/ SplitEof

SpecSplit == InitSplit /\ [][NextSplit]_vars

(***************************************************************************)
(* enc/encoder.rs, decoder.rs: the LZMACoder (state, reps) of an           *)
(* LZMAEncoder and of the LZMADecoder that reads what it wrote.  What the  *)
(* range coder carries from one to the other is written as the record of   *)
(* the bits, lengths and distance parts given to it; reps[0..3] are        *)
(* reps[1..4] here.                                                        *)
(***************************************************************************)
REPS == 4
MATCH_LEN_MIN == 2
DIST_MODEL_START == 4
DIST_MODEL_END == 14
ALIGN_BITS == 4
\* ALIGN_SIZE = 1 << ALIGN_BITS
ALIGN_SIZE == 16
\* DIST_SPECIAL_END[i] - DIST_SPECIAL_INDEX[i], the length of get_dist_special(i)
DIST_SPECIAL_LEN == <<2, 2, 4, 4, 8, 8, 16, 16, 32, 32>>

\* symbols coded one after the other
MaxSymbols == 3
\* the distances of the matches
Dists == {0, 1, 3, 4, 5, 6, 11, 96, 127, 128, 65541, 1073741831}
\* the lengths of matches and long reps
Lens == {MATCH_LEN_MIN, MATCH_LEN_MIN + 1}

\* a | b of two non-negative integers
RECURSIVE bit_or(_, _)
bit_or(a, b) ==
  IF a = 0 THEN b
  ELSE IF b = 0 THEN a
  ELSE Max(a % 2, b % 2) + 2 * bit_or(a \div 2, b \div 2)

\* LZMACoder::reset: reps = [0; REPS], state.reset()
LZMACoderNew == [state |-> LIT_LIT, reps |-> <<0, 0, 0, 0>>]

\* nothing given to the range coder yet
NoBits ==
  [is_match |-> 0, is_rep |-> 0, is_rep0 |-> 0, is_rep0_long |-> 0, is_rep1 |-> 0,
   is_rep2 |-> 0, len |-> 0, dist_slot |-> 0, special |-> 0, direct |-> 0, align |-> 0]

\* (n & mask) == 0 for n = dist << sh and the mask of the bits from bit k up:
\* dist is below 2^(k - sh)
high_bits_clear(dist, sh, k) == dist \div pow2(k - sh - 1) < 2

\* LZMAEncoder::get_dist_slot: the place i of the highest bit of dist is found
\* by halving (n is dist shifted left by sh), the slot is 2 * i + the bit below
get_dist_slot(dist) ==
  IF dist <= DIST_MODEL_START THEN dist
  ELSE LET s1 == IF high_bits_clear(dist, 0, 16) THEN [sh |-> 16, i |-> 15]
                 ELSE [sh |-> 0, i |-> 31]
           s2 == IF high_bits_clear(dist, s1.sh, 24) THEN [sh |-> s1.sh + 8, i |-> s1.i - 8]
                 ELSE s1
           s3 == IF high_bits_clear(dist, s2.sh, 28) THEN [sh |-> s2.sh + 4, i |-> s2.i - 4]
                 ELSE s2
           s4 == IF high_bits_clear(dist, s3.sh, 30) THEN [sh |-> s3.sh + 2, i |-> s3.i - 2]
                 ELSE s3
           i == IF high_bits_clear(dist, s4.sh, 31) THEN s4.i - 1 ELSE s4.i
       IN  2 * i + ((dist \div pow2(i - 1)) % 2)

\* an encode_match that overwrites reps[0] without shifting the reps down
encode_match_no_shift(c, dist, len) ==
  [coder |-> [state |-> update_match(c.state),
              reps |-> <<dist, c.reps[2], c.reps[3], c.reps[4]>>],
   bits |-> [NoBits EXCEPT !.is_match = 1, !.len = len,
                           !.dist_slot = get_dist_slot(dist)]]

\* LZMAEncoder::encode_match: update_match, the length, the distance slot, the
\* footer of the distance, then reps shifted down and reps[0] = dist
encode_match(c, dist, len) ==
  LET dist_slot == get_dist_slot(dist)
      footer_bits == (dist_slot \div 2) - 1
      base == (2 + (dist_slot % 2)) * pow2(footer_bits)
      dist_reduced == dist - base
      sent == [NoBits EXCEPT !.is_match = 1, !.len = len, !.dist_slot = dist_slot]
  IN  [coder |-> [state |-> update_match(c.state),
                  reps |-> <<dist, c.reps[1], c.reps[2], c.reps[3]>>],
       bits |-> IF dist_slot < DIST_MODEL_START THEN sent
                ELSE IF dist_slot < DIST_MODEL_END
                  THEN [sent EXCEPT !.special = dist_reduced]
                ELSE [sent EXCEPT !.direct = dist_reduced \div ALIGN_SIZE,
                                  !.align = dist_reduced % ALIGN_SIZE]]

\* LZMAEncoder::encode_rep_match
encode_rep_match(c, rep, len) ==
  LET dist == c.reps[rep + 1]
      reps == IF rep = 0 THEN c.reps
              ELSE IF rep = 1 THEN <<dist, c.reps[1], c.reps[3], c.reps[4]>>
              ELSE IF rep = 2 THEN <<dist, c.reps[1], c.reps[2], c.reps[4]>>
              ELSE <<dist, c.reps[1], c.reps[2], c.reps[3]>>
      sent == [NoBits EXCEPT !.is_match = 1, !.is_rep = 1,
                             !.is_rep0 = IF rep = 0 THEN 0 ELSE 1,
                             !.is_rep0_long = IF rep = 0 /\ len # 1 THEN 1 ELSE 0,
                             !.is_rep1 = IF rep >= 2 THEN 1 ELSE 0,
                             !.is_rep2 = IF rep >= 2 THEN rep - 2 ELSE 0]
  IN  IF len = 1
        THEN [coder |-> [state |-> update_short_rep(c.state), reps |-> reps],
              bits |-> sent]
        ELSE [coder |-> [state |-> update_long_rep(c.state), reps |-> reps],
              bits |-> [sent EXCEPT !.len = len]]

\* LZMAEncoder::encode_symbol with data.back = back and the length len that
\* get_next_symbol returned
encode_symbol(c, back, len) ==
  IF back = -1
    THEN \* LiteralSubEncoder::encode: coder.state.update_literal()
         [coder |-> [c EXCEPT !.state = update_literal(c.state)], bits |-> NoBits]
  ELSE IF back < REPS THEN encode_rep_match(c, back, len)
  ELSE encode_match(c, back - REPS, len)

\* LZMADecoder::decode_match
decode_match(c, bits) ==
  LET dist_slot == bits.dist_slot
      limit == (dist_slot \div 2) - 1
      base == (2 + (dist_slot % 2)) * pow2(limit)
      rep0 == IF dist_slot < DIST_MODEL_START THEN dist_slot
              ELSE IF dist_slot < DIST_MODEL_END
                THEN bit_or(base, bits.special
                                    % DIST_SPECIAL_LEN[dist_slot - DIST_MODEL_START + 1])
              ELSE bit_or(bit_or(base, (bits.direct % pow2(limit - ALIGN_BITS)) * ALIGN_SIZE),
                          bits.align % ALIGN_SIZE)
  IN  [coder |-> [state |-> update_match(c.state),
                  reps |-> <<rep0, c.reps[1], c.reps[2], c.reps[3]>>],
       len |-> bits.len]

\* LZMADecoder::decode_rep_match
decode_rep_match(c, bits) ==
  IF bits.is_rep0 = 0 /\ bits.is_rep0_long = 0
    THEN [coder |-> [c EXCEPT !.state = update_short_rep(c.state)], len |-> 1]
    ELSE LET reps == IF bits.is_rep0 = 0 THEN c.reps
                     ELSE IF bits.is_rep1 = 0
                       THEN <<c.reps[2], c.reps[1], c.reps[3], c.reps[4]>>
                     ELSE IF bits.is_rep2 = 0
                       THEN <<c.reps[3], c.reps[1], c.reps[2], c.reps[4]>>
                     ELSE <<c.reps[4], c.reps[1], c.reps[2], c.reps[3]>>
         IN  [coder |-> [state |-> update_long_rep(c.state), reps |-> reps],
              len |-> bits.len]

\* an encoder and the decoder of its output, both freshly reset
InitMirror ==
  /\ client = "mirror"
  /\ NoPool
  /\ mbi = NoMbi
  /\ lzip = NoLzip
  /\ coder = [pc |-> "encode", enc |-> LZMACoderNew, dec |-> LZMACoderNew,
              bits |-> NoBits, back |-> -1, len |-> 0, dlen |-> 0, symbols |-> 0]

MirrorFrame == NoPoolFrame /\ UNCHANGED <<mbi, lzip>>

\* the symbols the encoder emits: a literal, a short rep, a long rep of
\* reps[rep], a match of a distance
Symbols ==
  {[back |-> -1, len |-> 1], [back |-> 0, len |-> 1]}
    \cup [back : 0..(REPS - 1), len : Lens]
    \cup {[back |-> d + REPS, len |-> l] : d \in Dists, l \in Lens}

\* LZMAEncoder::encode_symbol
EncodeSymbol ==
  /\ client = "mirror" /\ coder.pc = "encode"
  /\ coder.symbols < MaxSymbols
  /\ \E s \in Symbols :
       LET e == encode_symbol(coder.enc, s.back, s.len) IN
         coder' = [coder EXCEPT !.pc = "decode", !.enc = e.coder, !.bits = e.bits,
                                !.back = s.back, !.len = s.len,
                                !.symbols = @ + 1]
  /\ MirrorFrame

\* LZMADecoder::decode, bit == 0: LiteralSubDecoder::decode, coder.state.update_literal()
DecodeLiteral ==
  /\ client = "mirror" /\ coder.pc = "decode"
  /\ coder.bits.is_match = 0
  /\ coder' = [coder EXCEPT !.pc = "encode",
                            !.dec = [@ EXCEPT !.state = update_literal(@)],
                            !.dlen = 1]
  /\ MirrorFrame

\* LZMADecoder::decode, is_rep bit 0: decode_match
DecodeMatch ==
  /\ client = "mirror" /\ coder.pc = "decode"
  /\ coder.bits.is_match = 1 /\ coder.bits.is_rep = 0
  /\ LET d == decode_match(coder.dec, coder.bits) IN
       coder' = [coder EXCEPT !.pc = "encode", !.dec = d.coder, !.dlen = d.len]
  /\ MirrorFrame

\* LZMADecoder::decode, is_rep bit 1: decode_rep_match
DecodeRepMatch ==
  /\ client = "mirror" /\ coder.pc = "decode"
  /\ coder.bits.is_match = 1 /\ coder.bits.is_rep = 1
  /\ LET d == decode_rep_match(coder.dec, coder.bits) IN
       coder' = [coder EXCEPT !.pc = "encode", !.dec = d.coder, !.dlen = d.len]
  /\ MirrorFrame

NextMirror == EncodeSymbol \/ DecodeLiteral \/ DecodeMatch \/ DecodeRepMatch

SpecMirror == InitMirror /\ [][NextMirror]_vars

(***************************************************************************)
(* xz/reader.rs, xz/reader_mt.rs: XzReader and XzReaderMt over an input    *)
(* of concatenated XZ streams.  The input is a sequence of tokens: single  *)
(* bytes (the magic bytes, stream padding) and the parsed units of a       *)
(* stream (stream flags with their CRC32, a block with its payload and     *)
(* check field, the index, the footer).  The check value of a payload is   *)
(* a digest of DigestMod values.  The pool of XzReaderMt is the one of     *)
(* SpecPools; here its read runs each block through decompress_xz_block in *)
(* dispatch order.                                                         *)
(***************************************************************************)
\* most blocks of one input
MaxBlocks == 2
\* most bytes of stream padding between two streams
MaxPadding == 5
\* number of values a check takes (2^32, 2^64, 2^256 scaled down)
DigestMod == 8

\* xz.rs:35  const XZ_MAGIC: [u8; 6] = [0xFD, b'7', b'z', b'X', b'Z', 0x00]
XZ_MAGIC == <<253, 55, 122, 88, 90, 0>>

Byte(v) == [t |-> "byte", v |-> v]
Payloads == {<<0>>, <<1>>, <<0, 1>>}

\* ChecksumCalculator::new
NoCalc == [kind |-> "unset", value |-> 0]
ChecksumCalculator_new(check_type) == [kind |-> check_type, value |-> 0]

\* ChecksumCalculator::update
RECURSIVE ChecksumCalculator_update(_, _)
ChecksumCalculator_update(calc, data) ==
  IF data = <<>> \/ calc.kind = "None" THEN calc
  ELSE ChecksumCalculator_update(
         [calc EXCEPT !.value = (2 * @ + Head(data) + 1) % DigestMod], Tail(data))

\* ChecksumCalculator::verify
ChecksumCalculator_verify(calc, expected) ==
  calc.kind = "None" \/ (Len(expected) = 1 /\ calc.value = expected[1])

\* the check field a writer stores behind a block with this payload
check_of(check_type, data) ==
  IF check_type = "None" THEN <<>>
  ELSE <<ChecksumCalculator_update(ChecksumCalculator_new(check_type), data).value>>

\* a check field that differs from the one computed over the payload
wrong_check_of(check_type, data) ==
  IF check_type = "None" THEN <<>>
  ELSE <<(check_of(check_type, data)[1] + 1) % DigestMod>>

XzBlocks(check_type) ==
  UNION {{[t |-> "block", data |-> p, check |-> check_of(check_type, p)],
          [t |-> "block", data |-> p, check |-> wrong_check_of(check_type, p)]}
         : p \in Payloads}

\* one stream: magic, stream flags, blocks, index, footer
XzStream(check_type, blocks) ==
  [i \in 1..6 |-> Byte(XZ_MAGIC[i])]
    \o <<[t |-> "flags", check_type |-> check_type]>>
    \o blocks
    \o <<[t |-> "index", number_of_records |-> Len(blocks)],
         [t |-> "footer", check_type |-> check_type]>>

XzStreams(n) ==
  UNION {{XzStream(c, blocks) : blocks \in [1..n -> XzBlocks(c)]} : c \in CheckTypes}

\* one stream of up to MaxBlocks blocks
OneStream == UNION {XzStreams(n) : n \in 1..MaxBlocks}

\* two streams with stream padding between them
TwoStreams ==
  {s1 \o [i \in 1..pad |-> Byte(0)] \o s2 :
     s1 \in XzStreams(1), s2 \in XzStreams(MaxBlocks - 1), pad \in 0..MaxPadding}

\* the blocks of an input, in order
blocks_of(inner) == SelectSeq(inner, LAMBDA tok : tok.t = "block")

\* XzReader::new (left: the payload the filter chain of the current block has
\* not put out yet; out, failed, ret: what the calls of read returned)
XzReaderInit(inner, allow_multiple_streams) ==
  [kind |-> "XzReader", inner |-> inner, pos |-> 1, left |-> <<>>,
   stream_header |-> "none", checksum_calculator |-> NoCalc, finished |-> FALSE,
   allow_multiple_streams |-> allow_multiple_streams, blocks_processed |-> 0,
   out |-> <<>>, failed |-> FALSE, ret |-> "none"]

\* StreamHeader::parse_stream_header_flags_and_crc
parse_stream_header_flags_and_crc(r) ==
  IF r.pos > Len(r.inner) THEN [r |-> r, ret |-> "UnexpectedEof"]
  ELSE IF r.inner[r.pos].t # "flags" THEN [r |-> r, ret |-> "InvalidData"]
  ELSE [r |-> [r EXCEPT !.stream_header = r.inner[r.pos].check_type, !.pos = @ + 1],
        ret |-> "Ok"]

\* StreamHeader::parse
StreamHeader_parse(r) ==
  IF r.pos + 5 > Len(r.inner) THEN [r |-> r, ret |-> "UnexpectedEof"]
  ELSE IF SubSeq(r.inner, r.pos, r.pos + 5) # [i \in 1..6 |-> Byte(XZ_MAGIC[i])]
    THEN [r |-> r, ret |-> "InvalidData"]
  ELSE parse_stream_header_flags_and_crc([r EXCEPT !.pos = @ + 6])

\* XzReader::ensure_stream_header
ensure_stream_header(r) ==
  IF r.stream_header = "none" THEN StreamHeader_parse(r) ELSE [r |-> r, ret |-> "Ok"]

\* XzReader::verify_block_checksum: the calculator is taken, the check field
\* behind the block is read and compared
verify_block_checksum(r) ==
  LET checksum_calculator == r.checksum_calculator
      taken == [r EXCEPT !.checksum_calculator = NoCalc, !.pos = @ + 1]
  IN  IF checksum_calculator.kind = "None" THEN [r |-> taken, ret |-> "Ok"]
      ELSE IF ~ChecksumCalculator_verify(checksum_calculator, r.inner[r.pos].check)
        THEN [r |-> taken, ret |-> "InvalidData"]
      ELSE [r |-> taken, ret |-> "Ok"]

\* the comparison of the first byte that is not zero with the magic
starts_other_data(byte) == byte = XZ_MAGIC[1]

\* XzReader::try_start_next_stream
RECURSIVE try_start_next_stream(_, _)
try_start_next_stream(r, padding_bytes) ==
  IF r.pos > Len(r.inner) THEN [r |-> r, ret |-> "Ok(false)"]
  ELSE LET tok == r.inner[r.pos]
           byte == IF tok.t = "byte" THEN tok.v ELSE 1
       IN  IF byte = 0
             THEN try_start_next_stream([r EXCEPT !.pos = @ + 1], padding_bytes + 1)
           ELSE IF starts_other_data(byte)
             THEN [r |-> [r EXCEPT !.pos = @ + 1], ret |-> "InvalidData"]
           ELSE IF r.pos + 5 > Len(r.inner)
             THEN [r |-> [r EXCEPT !.pos = Len(r.inner) + 1], ret |-> "InvalidData"]
           ELSE IF SubSeq(r.inner, r.pos, r.pos + 5) # [i \in 1..6 |-> Byte(XZ_MAGIC[i])]
             THEN [r |-> [r EXCEPT !.pos = @ + 6], ret |-> "InvalidData"]
           ELSE IF padding_bytes % 4 # 0
             THEN [r |-> [r EXCEPT !.pos = @ + 6], ret |-> "InvalidData"]
           ELSE LET header == parse_stream_header_flags_and_crc([r EXCEPT !.pos = @ + 6])
                IN  IF header.ret # "Ok" THEN header
                    ELSE [r |-> [header.r EXCEPT !.blocks_processed = 0],
                          ret |-> "Ok(true)"]

\* XzReader::parse_index_and_footer, the index indicator already consumed
parse_index_and_footer(r) ==
  IF r.inner[r.pos].number_of_records # r.blocks_processed
    THEN [r |-> [r EXCEPT !.pos = @ + 1], ret |-> "InvalidData"]
  ELSE IF r.pos + 1 > Len(r.inner)
    THEN [r |-> [r EXCEPT !.pos = @ + 1], ret |-> "UnexpectedEof"]
  ELSE IF r.inner[r.pos + 1].t # "footer"
    THEN [r |-> [r EXCEPT !.pos = @ + 2], ret |-> "InvalidData"]
  ELSE IF r.inner[r.pos + 1].check_type # r.stream_header
    THEN [r |-> [r EXCEPT !.pos = @ + 2], ret |-> "InvalidData"]
  ELSE [r |-> [r EXCEPT !.pos = @ + 2], ret |-> "Ok"]

\* XzReader::prepare_next_block
RECURSIVE XzReader_prepare_next_block(_)
XzReader_prepare_next_block(r) ==
  IF r.pos > Len(r.inner) THEN [r |-> r, ret |-> "UnexpectedEof"]
  ELSE IF r.inner[r.pos].t = "block"
    THEN [r |-> [r EXCEPT !.left = r.inner[r.pos].data,
                          !.checksum_calculator = ChecksumCalculator_new(r.stream_header),
                          !.blocks_processed = @ + 1],
          ret |-> "Ok(true)"]
  ELSE IF r.inner[r.pos].t = "index"
    THEN LET parsed == parse_index_and_footer(r) IN
         IF parsed.ret # "Ok" THEN parsed
         ELSE LET next == IF r.allow_multiple_streams
                            THEN try_start_next_stream(parsed.r, 0)
                            ELSE [r |-> parsed.r, ret |-> "Ok(false)"]
              IN  IF next.ret = "Ok(true)" THEN XzReader_prepare_next_block(next.r)
                  ELSE IF next.ret = "Ok(false)"
                    THEN [r |-> [next.r EXCEPT !.finished = TRUE], ret |-> "Ok(false)"]
                  ELSE next
  ELSE [r |-> [r EXCEPT !.pos = @ + 1], ret |-> "InvalidData"]

\* the loop of <XzReader as Read>::read with a buffer of len bytes
RECURSIVE XzReader_loop(_, _)
XzReader_loop(r, len) ==
  IF r.checksum_calculator # NoCalc
    THEN IF r.left # <<>>
           THEN LET bytes_read == Min(len, Len(r.left))
                    buf == SubSeq(r.left, 1, bytes_read)
                IN  [r |-> [r EXCEPT !.left = SubSeq(@, bytes_read + 1, Len(@)),
                                     !.checksum_calculator =
                                        ChecksumCalculator_update(@, buf),
                                     !.out = @ \o buf],
                     ret |-> "Ok(n)"]
         ELSE LET verified == verify_block_checksum(r) IN
              IF verified.ret # "Ok" THEN verified
              ELSE XzReader_loop(verified.r, len)
  ELSE LET prepared == XzReader_prepare_next_block(r) IN
       IF prepared.ret = "Ok(true)" THEN XzReader_loop(prepared.r, len)
       ELSE IF prepared.ret = "Ok(false)" THEN [r |-> prepared.r, ret |-> "Ok(0)"]
       ELSE prepared

\* <XzReader as Read>::read
XzReader_read(r, len) ==
  IF r.finished THEN [r |-> r, ret |-> "Ok(0)"]
  ELSE LET header == ensure_stream_header(r) IN
       IF header.ret # "Ok" THEN header ELSE XzReader_loop(header.r, len)

\* XzReaderMt::new with scan_blocks over an input of one stream
XzReaderMtInit(inner, allow_multiple_streams) ==
  [kind |-> "XzReaderMt", inner |-> inner, blocks |-> blocks_of(inner),
   check_type |-> inner[7].check_type, next_sequence_to_return |-> 0,
   current_chunk |-> <<>>, allow_multiple_streams |-> allow_multiple_streams,
   out |-> <<>>, failed |-> FALSE, ret |-> "none"]

\* decompress_xz_block: the check field and the padding are cut off the block
\* data, what is left runs through the filter chain
decompress_xz_block(block_data, check_type) ==
  LET compressed_data == [block_data EXCEPT !.check = <<>>]
  IN  [ret |-> "Ok", decompressed_data |-> compressed_data.data]

\* <XzReaderMt as Read>::read with a buffer of len bytes
RECURSIVE XzReaderMt_read(_, _)
XzReaderMt_read(r, len) ==
  IF r.current_chunk # <<>>
    THEN LET bytes_read == Min(len, Len(r.current_chunk))
         IN  [r |-> [r EXCEPT !.current_chunk = SubSeq(@, bytes_read + 1, Len(@)),
                              !.out = @ \o SubSeq(r.current_chunk, 1, bytes_read)],
              ret |-> "Ok(n)"]
  ELSE IF r.next_sequence_to_return >= Len(r.blocks) THEN [r |-> r, ret |-> "Ok(0)"]
  ELSE LET result == decompress_xz_block(r.blocks[r.next_sequence_to_return + 1],
                                         r.check_type)
       IN  IF result.ret # "Ok" THEN [r |-> r, ret |-> result.ret]
           ELSE XzReaderMt_read([r EXCEPT !.next_sequence_to_return = @ + 1,
                                          !.current_chunk = result.decompressed_data],
                                len)

InitXzReader ==
  /\ client = "xzread"
  /\ num_workers = 1
  /\ num_work = U64Max
  /\ option_size = NoneSize
  /\ dict_size = 1
  /\ unit_size = NoneSize
  /\ PoolNew
  /\ ClientNew
  /\ lzma2 = Lzma2New
  /\ DecodersNew
  /\ \E allow_multiple_streams \in BOOLEAN :
       \/ \E inner \in OneStream \cup TwoStreams :
            xz = XzReaderInit(inner, allow_multiple_streams)
       \/ \E inner \in OneStream :
            xz = XzReaderMtInit(inner, allow_multiple_streams)

XzReaderFrame ==
  UNCHANGED <<cfgVars, poolVars, workerVars, ctlVars, histVars, lzma2, coder, mbi, lzip>>

\* one call of XzReader::read with a buffer that is not empty
XzRead ==
  /\ client = "xzread" /\ xz.kind = "XzReader"
  /\ \E len \in 1..MaxBuf :
       LET call == XzReader_read(xz, len)
       IN  xz' = [call.r EXCEPT !.ret = call.ret,
                                !.failed = @ \/ call.ret \notin {"Ok(n)", "Ok(0)"}]
  /\ XzReaderFrame

\* one call of XzReaderMt::read with a buffer that is not empty
XzMtRead ==
  /\ client = "xzread" /\ xz.kind = "XzReaderMt"
  /\ \E len \in 1..MaxBuf :
       LET call == XzReaderMt_read(xz, len)
       IN  xz' = [call.r EXCEPT !.ret = call.ret,
                                !.failed = @ \/ call.ret \notin {"Ok(n)", "Ok(0)"}]
  /\ XzReaderFrame

NextXzReader == XzRead \/ XzMtRead

SpecXzReader == InitXzReader /\ [][NextXzReader]_vars

\* the steps a running thread takes without a decision of the caller: the
\* controlling thread inside a call or inside the drop, and every worker;
\* a sleeping worker wakes only when it is notified
Running == GetResult \/ WriterStep \/ (cpc # "idle" /\ Drop)
FairSpec ==
  /\ Spec
  /\ WF_vars(Running)
  /\ \A w \in Threads : WF_vars(Worker(w))

(***************************************************************************)
(* Properties of the work pool                                             *)
(***************************************************************************)
InGetResult == cpc \in {"gr_top", "gr_match", "gr_spawn", "gr_recv"}
AnyFailed == stored # <<>> \/ \E w \in Threads : wpc[w] = "seterr"
InOrder(results) == \A i \in 1..Len(results) : results[i].idx = i - 1

\* C1: the results returned by get_result and try_get_result carry the
\* indices 0, 1, 2, ... in this order, without a gap and without a repeat,
\* whatever the order in which the workers finish; a result that arrives
\* ahead of its turn stays in out_of_order_results until its turn comes.
C1_ResultsInOrder ==
  /\ InOrder(returned)
  /\ next_index_to_return = Len(returned)
  /\ \A r \in out_of_order_results : r.idx >= next_index_to_return

\* a result that was buffered ahead of its turn has been returned in its turn
C1_BufferedThenReturned ==
  \E i \in stashedEver : i >= 1 /\ i < Len(returned)

\* C2: once a worker has failed and stored its error, the get_result call in
\* progress returns in finite time or the error is taken out of the slot for
\* the caller: the controlling thread does not stay blocked.
C2_ErrorUnblocksController ==
  (InGetResult /\ error_store # NoErr) ~> (~InGetResult \/ error_store = NoErr)

\* C3: after finish() with N >= 1 dispatched items and no failed worker,
\* every get_result call returns in finite time, the calls yield the indices
\* 0 .. N-1 and nothing else, Ok(None) comes only with the state Finished and
\* all N results returned, and a Finished pool stays Finished.
C3_DrainedReturn ==
  \/ client = "reader" /\ lastRet.kind = "none"
  \/ client = "writer" /\ opRet = [op |-> "finish", ok |-> TRUE]
C3_Safe ==
  (finishCalled /\ ~AnyFailed) =>
    /\ next_index_to_dispatch >= 1
    /\ last_sequence_id = next_index_to_dispatch - 1
    /\ InOrder(returned)
    /\ Len(returned) <= next_index_to_dispatch
    /\ surfaced = {}
    /\ state \in {"Draining", "Finished"}
    /\ state = "Finished" => Len(returned) = next_index_to_dispatch
    /\ C3_DrainedReturn => state = "Finished"
C3_FinishDrains ==
  /\ []C3_Safe
  /\ [][(state = "Finished" /\ ~AnyFailed) =>
          (state' = "Finished" /\ returned' = returned /\ surfaced' = surfaced)]_vars
  /\ (finishCalled /\ InGetResult) ~> (~InGetResult \/ AnyFailed)

\* finish() has drained a pool of at least two items without a failure
C3_Drained ==
  /\ finishCalled /\ ~AnyFailed /\ C3_DrainedReturn
  /\ state = "Finished" /\ Len(returned) >= 2

\* C4: after the pool is dropped every spawned worker exits in finite time,
\* whatever it was doing when the drop began.
C4_WorkersExitAfterDrop ==
  (cpc = "dropped") ~> (\A w \in Threads : wpc[w] \in {"unspawned", "exited"})

\* the units of a multi-threaded writer are consecutive slices of the bytes
\* written, each cut by write holds exactly size bytes, the others fewer
SlicesCutAt(size) ==
  /\ \A k \in 1..Len(units) :
       /\ units[k].idx = k - 1
       /\ units[k].off = (IF k = 1 THEN 0 ELSE units[k-1].off + units[k-1].len)
       /\ units[k].len >= 1 /\ units[k].len <= size
       /\ closedBy[k] = "write" => units[k].len = size
  /\ accepted = current_work_unit
                  + (IF units = <<>> THEN 0
                     ELSE units[Len(units)].off + units[Len(units)].len)
\* the sink has taken the compressed units in input order, each once, and
\* all of them when finish returns Ok
SinkInOrder ==
  /\ Len(returned) <= Len(units)
  /\ \A k \in 1..Len(returned) : returned[k] = units[k]
  /\ opRet = [op |-> "finish", ok |-> TRUE] =>
       (returned = units /\ current_work_unit = 0)

\* C6 as stated: the multi-threaded writers cut the input at the configured
\* unit size and write the compressed units in input order, each once.
C6_CutAtConfiguredSize ==
  client = "writer" => (SlicesCutAt(option_size) /\ SinkInOrder)

\* C6: the multi-threaded writers cut the input at the unit size they keep,
\* the larger of the configured size and the dictionary size, and write the
\* compressed units in input order, each exactly once, whatever the schedule.
C6_CutAtEffectiveSize ==
  client = "writer" => (SlicesCutAt(unit_size) /\ SinkInOrder)

\* finish has returned Ok after two units, the first cut by write at the unit
\* size, with a dictionary larger than the configured size
C6_TwoUnitsWritten ==
  /\ client = "writer" /\ opRet = [op |-> "finish", ok |-> TRUE]
  /\ Len(returned) >= 2 /\ closedBy[1] = "write" /\ dict_size > option_size

\* C8: the first worker error wins for the whole life of the pool: no error
\* of a worker that failed later is stored or surfaced.
C8_FirstErrorWins ==
  /\ error_store.kind = "worker" => error_store = stored[1]
  /\ \A e \in surfaced : e.kind = "worker" => e = stored[1]

\* C9 as stated: a call that starts with an error in the slot returns that
\* error and no result.
C9_ErrorNotResult ==
  lastRet.start # NoErr => (lastRet.kind = "err" /\ lastRet.err = lastRet.start)

\* C9: a call that starts with an error in the slot returns that error,
\* unless the next result in sequence is already in out_of_order_results:
\* then it returns that result and leaves the error in the slot.
C9_ErrorUnlessBuffered ==
  lastRet.start # NoErr =>
    \/ lastRet.kind = "err" /\ lastRet.err = lastRet.start
    \/ lastRet.kind = "some" /\ lastRet.from = "buffer" /\ callErr = lastRet.start

\* a call that started with an error in the slot has returned a buffered result
C9_BufferedResultFirst ==
  lastRet.start # NoErr /\ lastRet.kind = "some" /\ lastRet.from = "buffer"

IsDictReset(chunk) ==
  chunk.control = ControlRawResetDict \/ chunk.control >= ControlResetDict
UnitStarts(chunks) == {i \in 1..Len(chunks) : IsDictReset(chunks[i])}
UnitEnd(chunks, s) ==
  LET later == {t \in UnitStarts(chunks) : t > s}
  IN IF later = {} THEN Len(chunks)
     ELSE (CHOOSE t \in later : \A u \in later : t <= u) - 1
RECURSIVE SumSizes(_, _, _)
SumSizes(chunks, i, j) ==
  IF i > j THEN 0 ELSE chunks[i].size + SumSizes(chunks, i + 1, j)
UnitSizeAt(chunks, s) == SumSizes(chunks, s, UnitEnd(chunks, s))
RECURSIVE TotalLen(_)
TotalLen(segs) == IF segs = <<>> THEN 0 ELSE Head(segs).n + TotalLen(Tail(segs))

\* C5: with a chunk size S (taken as the size the writer keeps, S raised to
\* the dictionary size) every independent unit an Lzma2Writer puts out, a
\* run of chunks that starts at a dictionary reset, holds at most S
\* uncompressed bytes.
C5_UnitsWithinSize ==
  (client = "lzma2" /\ unit_size # NoneSize) =>
    \A s \in UnitStarts(lzma2.inner) : UnitSizeAt(lzma2.inner, s) <= unit_size

\* C7: finish with no byte written and the CRC32 check puts out 32 bytes:
\* the 12-byte header, an index without records and the 12-byte footer, no
\* block and no check bytes, from XzWriter and from XzWriterMt alike.
C7_EmptyStreamIs32Bytes ==
  (cpc = "xz_done" /\ accepted = 0 /\ xz.check_type = "Crc32") =>
    /\ TotalLen(xz.out) = 32
    /\ xz.index_records = <<>>
    /\ [i \in 1..Len(xz.out) |-> xz.out[i].seg] = <<"header", "index", "footer">>

(***************************************************************************)
(* Properties of the three pools (WorkPool, XzReaderMt, Lzma2ReaderMt)     *)
(***************************************************************************)
\* C11 as stated: every pool has at least one worker from its construction
\* on and never more than num_workers, which lies in 1..=256.
C11_AtLeastOneWorker ==
  /\ num_workers \in MinWorkers..MaxWorkersCap
  /\ spawned >= 1 /\ spawned <= num_workers

\* C11: a worker is spawned only at a dispatch at which the queue is not
\* empty, every spawned worker is busy and fewer than num_workers are
\* spawned, one worker at a time; num_workers lies in 1..=256 and the number
\* of spawned workers never exceeds it; WorkPool and Lzma2ReaderMt have one
\* worker from construction on, XzReaderMt has none until its first dispatch
\* and at least one from then on.
C11_SpawnPolicy ==
  /\ [](/\ num_workers \in MinWorkers..MaxWorkersCap
        /\ spawned <= num_workers
        /\ spawned >= (IF client = "xzreader" /\ next_index_to_dispatch = 0 THEN 0 ELSE 1)
        /\ \A w \in Threads : wpc[w] # "unspawned" <=> w <= spawned)
  /\ [][spawned' # spawned =>
          /\ spawned' = spawned + 1
          /\ next_index_to_dispatch' = next_index_to_dispatch + 1
          /\ Len(work_queue) > 0
          /\ active_workers = spawned
          /\ spawned < num_workers]_vars

\* a pool of a reader of its own has spawned a second worker, its last
C11_SecondWorkerSpawned ==
  client \in {"xzreader", "lzma2reader"} /\ spawned >= 2 /\ spawned = num_workers

(***************************************************************************)
(* Properties of the chunks Lzma2Writer writes                             *)
(***************************************************************************)
IsLzma(chunk) == chunk.control >= ControlLzma
\* the first LZMA chunk of chunks at or after the place m
FirstLzmaFrom(chunks, m) ==
  {j \in m..Len(chunks) : IsLzma(chunks[j]) /\ \A k \in m..(j - 1) : ~IsLzma(chunks[k])}

new_chunks == SubSeq(lzma2'.inner, Len(lzma2.inner) + 1, Len(lzma2'.inner))

\* the step has run write_chunk
chunk_step ==
  /\ client = "lzma2"
  /\ Len(lzma2'.inner) > Len(lzma2.inner)
  /\ lzma2'.inner[Len(lzma2'.inner)].control # ControlEnd

RECURSIVE sum_sizes(_)
sum_sizes(chunks) ==
  IF chunks = <<>> THEN 0 ELSE chunks[1].size + sum_sizes(Tail(chunks))

\* the chunks are one LZMA chunk of u bytes
one_lzma_chunk(chunks, u) ==
  Len(chunks) = 1 /\ IsLzma(chunks[1]) /\ chunks[1].size = u

\* the chunks are uncompressed chunks of at most COMPRESSED_SIZE_MAX bytes
\* each, holding the u bytes and what the encoder had read ahead
raw_chunks_of(chunks, u) ==
  /\ \A j \in 1..Len(chunks) :
       /\ chunks[j].control \in {ControlRawResetDict, ControlRaw}
       /\ chunks[j].size \in 1..MaxRawChunk
  /\ sum_sizes(chunks) \in u..(u + MaxReadAhead)

\* C13 (as the code has it): a chunk of compressed size c and uncompressed
\* size u is written as one LZMA chunk if c + 2 < u, and otherwise as
\* uncompressed chunks of at most 64 KiB each
C13_LzmaIfSmallerByMoreThanTwo ==
  [][chunk_step =>
       IF lzma2'.rc_size + 2 < lzma2'.data_size
         THEN one_lzma_chunk(new_chunks, lzma2'.data_size)
         ELSE raw_chunks_of(new_chunks, lzma2'.data_size)]_vars

\* C13 (as stated): a chunk of compressed size c and uncompressed size u is
\* written as one LZMA chunk if c < u + 2, and otherwise as uncompressed
\* chunks of at most 64 KiB each
C13_LzmaIfBelowSizePlusTwo ==
  [][chunk_step =>
       IF lzma2'.rc_size < lzma2'.data_size + 2
         THEN one_lzma_chunk(new_chunks, lzma2'.data_size)
         ELSE raw_chunks_of(new_chunks, lzma2'.data_size)]_vars

\* write_chunk has met c = 2 and u = 3 and has written two uncompressed
\* chunks, the first one full
C13_RawAlthoughSmaller ==
  /\ client = "lzma2"
  /\ lzma2.rc_size = 2 /\ lzma2.data_size = 3
  /\ Len(lzma2.inner) >= 2
  /\ lzma2.inner[Len(lzma2.inner)].control = ControlRaw
  /\ lzma2.inner[Len(lzma2.inner) - 1].control \in {ControlRawResetDict, ControlRaw}
  /\ lzma2.inner[Len(lzma2.inner) - 1].size = MaxRawChunk

\* C14: finish writes what is pending and then the end marker 0x00: after
\* finish the sink of Lzma2Writer or Lzma2WriterMt holds chunks of all the
\* bytes accepted, the first of them a dictionary reset, followed by exactly
\* one end marker as its last byte; no end marker is written anywhere else
C14_OneEndMarkerLast ==
  client \in {"lzma2", "writer"} =>
    \A s \in sink_chunks :
      /\ \A j \in 1..Len(s) :
           IF s[j].control = ControlEnd
             THEN j = Len(s) /\ finish_ok
             ELSE /\ s[j].control \in {ControlRawResetDict, ControlRaw}
                                     \cup (ControlLzma..(ControlResetDict + 31))
                  /\ s[j].size >= 1
      /\ finish_ok =>
           /\ Len(s) >= 1 /\ s[Len(s)] = EndMarker
           /\ sum_sizes(s) = accepted
           /\ Len(s) > 1 => IsDictReset(s[1])

\* Lzma2WriterMt::finish has returned Ok after the results of two units
C14_MtFinishedTwoUnits ==
  client = "writer" /\ finish_ok /\ Len(returned) >= 2

\* C15: from State::new, whatever updates (update_literal, update_match,
\* update_long_rep, update_short_rep) are applied in whatever order, the
\* state stays one of the STATES values 0..11
C15_StateInRange ==
  client = "state" => coder.state \in 0..(STATES - 1)

\* a literal after a repeated match after a match: NONLIT_REP went to 5
C15_LiteralAfterNonLiteral ==
  /\ client = "state"
  /\ Len(coder.ops) >= 3
  /\ coder.ops[Len(coder.ops)] = "literal"
  /\ coder.ops[Len(coder.ops) - 1] \in {"long_rep", "short_rep"}
  /\ coder.ops[Len(coder.ops) - 2] = "match"
  /\ coder.state = NONLIT_REP - 6

\* C16: a probability that starts at PROB_INIT = 1024 and is changed by
\* decode_bit only stays strictly between 0 and BIT_MODEL_TOTAL = 2048
C16_ProbStrictlyInside ==
  client = "rc" => coder.prob > 0 /\ coder.prob < BIT_MODEL_TOTAL

\* bit after bit was 1 until the probability stopped falling
C16_ProbAtLowest ==
  client = "rc" /\ coder.nbits > 0 /\ coder.bit = 1 /\ coder.prob = MOVE_BITS_MASK

\* C17: decode_bit, computed with a mask and no branch, gives the bit, range,
\* code and probability of the rule: bound = (range >> 11) * prob; if
\* code < bound the bit is 0, range = bound and prob += (2048 - prob) >> 5;
\* else the bit is 1, range -= bound, code -= bound and prob -= prob >> 5
C17_BranchlessIsReference ==
  [][(client = "rc" /\ coder'.nbits = coder.nbits + 1) =>
       LET n == coder'.before
           bound == mul32(shr32(n.range, BIT_MODEL_TOTAL_BITS), coder.prob)
       IN /\ \E b \in Bytes : n = normalize(coder.rc, b)
          /\ IF lt32(n.code, bound)
               THEN /\ coder'.bit = 0
                    /\ coder'.rc = [range |-> bound, code |-> n.code]
                    /\ coder'.prob = coder.prob + ((BIT_MODEL_TOTAL - coder.prob) \div 32)
               ELSE /\ coder'.bit = 1
                    /\ coder'.rc = [range |-> wrapping_sub(n.range, bound),
                                    code |-> wrapping_sub(n.code, bound)]
                    /\ coder'.prob = coder.prob - (coder.prob \div 32)]_vars

\* decode_bit has read a byte in normalize and has found the code below the
\* bound
C17_ZeroBitAfterNormalize ==
  client = "rc" /\ coder.normalized /\ coder.bit = 0 /\ coder.nbits = MaxBits

\* the highest group of the value that is not 0 (0 for the value 0)
top_group(value) ==
  IF value = ZERO64 THEN 0
  ELSE CHOOSE g \in 1..GROUPS : value[g] # 0 /\ \A h \in (g + 1)..GROUPS : value[h] = 0

\* C18: for a value below 2^63, parsing its encoding gives the value back,
\* and the encoding has ceil(bits / 7) bytes (one for 0), the number
\* count_multibyte_integer_size_for_value returns
C18_RoundTripAndSize ==
  (client = "mbi" /\ ~gt_half_max(mbi.value)) =>
    /\ mbi.pc # "failed"
    /\ mbi.pc \in {"encoded", "counted", "parsed"} =>
         Len(mbi.buf) = (IF mbi.value = ZERO64 THEN 1 ELSE top_group(mbi.value))
    /\ mbi.pc \in {"counted", "parsed"} => mbi.count = Len(mbi.buf)
    /\ mbi.pc = "parsed" => mbi.ok /\ mbi.parsed = mbi.value

\* 2^63 - 1 has gone through nine bytes and back
C18_LargestValueParsed ==
  /\ client = "mbi" /\ mbi.pc = "parsed"
  /\ mbi.value = [g \in 1..GROUPS |-> IF g < GROUPS THEN GROUP - 1 ELSE 0]
  /\ Len(mbi.buf) = GROUPS - 1
  /\ mbi.parsed = mbi.value

\* the size the byte stands for: (1 << base_log2) - frac * (1 << (base_log2 - 4))
coded_size(encoded) ==
  pow2(encoded % 32) - (encoded \div 32) * pow2((encoded % 32) - 4)

\* the byte has base_log2 in [12, 29] (frac, three bits, is in [0, 7])
in_claimed_domain(encoded) == (encoded % 32) \in 12..29

\* C19 (as the code has it): for a byte with base_log2 in [12, 29] and frac in
\* [0, 7], decode_dict_size returns (1 << base_log2) - frac * (1 << (base_log2 - 4))
\* when that lies in [4 KiB, 512 MiB], and an error when it does not
C19_SizeOrError ==
  (client = "dict" /\ lzip.pc = "decoded" /\ in_claimed_domain(lzip.encoded)) =>
    IF coded_size(lzip.encoded) \in MIN_DICT_SIZE..MAX_DICT_SIZE
      THEN lzip.result = DictOk(coded_size(lzip.encoded))
      ELSE ~lzip.result.ok

\* C19 (as stated): for a byte with base_log2 in [12, 29] and frac in [0, 7],
\* decode_dict_size returns (1 << base_log2) - frac * (1 << (base_log2 - 4))
\* clamped to [4 KiB, 512 MiB]
C19_SizeClamped ==
  (client = "dict" /\ lzip.pc = "decoded" /\ in_claimed_domain(lzip.encoded)) =>
    lzip.result = DictOk(clamp(coded_size(lzip.encoded), MIN_DICT_SIZE, MAX_DICT_SIZE))

\* 0x2C, base_log2 = 12 and frac = 1, which stands for 3840 bytes, has been
\* refused
C19_BelowMinimumRefused ==
  /\ client = "dict" /\ lzip.pc = "decoded"
  /\ lzip.encoded = 44
  /\ coded_size(lzip.encoded) < MIN_DICT_SIZE
  /\ ~lzip.result.ok

\* the input of the reader stands at a header with a wrong magic, or at one
\* with a dictionary-size byte decode_dict_size refuses
at_malformed_header(inner) ==
  /\ inner # <<>>
  /\ \/ Head(inner).header.magic # LZIP_MAGIC
     \/ /\ Head(inner).header.version = LZIP_VERSION
        /\ ~decode_dict_size(Head(inner).header.dict_size_byte).ok

\* C20: a read that comes upon a malformed member header (wrong magic, or a
\* dictionary-size byte outside the valid range), at the first member or at
\* a later one, fails with InvalidData and does not report the end of the
\* stream
C20_MalformedHeaderIsInvalidData ==
  (/\ client = "lzip" /\ lzip.pc = "reader" /\ lzip.calls > 0
   /\ ~lzip.finished_at_entry /\ lzip.finished
   /\ at_malformed_header(lzip.inner)) =>
    lzip.ret = "InvalidData"

\* C28: once a pool call has returned Err, the state of the pool stays Error
\* and no later get_result or try_get_result returns Ok(Some(result))
C28_ErrorIsTerminal ==
  [][surfaced # {} => (state' = "Error" /\ returned' = returned)]_vars

\* C29: when flush of a multi-threaded writer returns Ok, every byte accepted
\* by the earlier writes is in a unit that has been compressed and written to
\* the inner writer
C29_FlushWritesAll ==
  (client = "writer" /\ cpc = "idle" /\ opRet = [op |-> "flush", ok |-> TRUE]) =>
    (current_work_unit = 0 /\ returned = units)

\* C26: within one independent segment of the output of Lzma2Writer (from
\* the creation of the encoder, or from a start_independent_chunk, up to the
\* next start_independent_chunk) only the first chunk resets the dictionary:
\* no later chunk of the segment has control 0x01 or control >= 0xE0
C26_OneDictResetPerSegment ==
  client = "lzma2" =>
    \A k \in 2..Len(lzma2.inner) :
      k \notin lzma2.marks => ~IsDictReset(lzma2.inner[k])

\* the runs of chunks of a stream, a run beginning at the first chunk and at
\* every later chunk with control 0x01 or control >= 0xE0
runs_of(stream) ==
  Cardinality({k \in 1..Len(chunks_of(stream)) : k = 1 \/ IsDictReset(stream[k])})

\* Lzma2ReaderMt::chunk_count()
chunk_count == next_index_to_return

\* Lzma2ReaderMt has been read to the end of the stream
read_to_end == client = "lzma2reader" /\ state = "Finished"

ReadProgress == GetResult \/ Lzma2ReaderStep \/ \E w \in Threads : Worker(w)

\* C27: Lzma2ReaderMt::read terminates on every input, a source that yields
\* zero bytes included: a read that has not returned is never left waiting
\* where neither the controlling thread nor a worker can take a step
C27_ReadNeverWaitsForever ==
  (client = "lzma2reader" /\ op = "read") => ENABLED ReadProgress

\* C24: for any number of worker handles and any interleaving of push, steal
\* and try_steal, every item pushed is handed out by at most one steal or
\* try_steal and is still in the queue otherwise, and the items are handed
\* out in the order they were pushed
C24_EachItemOnceInOrder ==
  client = "queue" =>
    /\ returned \o work_queue = units
    /\ \A k \in 1..Len(units) : units[k].idx = k - 1
    /\ \A w \in Threads :
         wpc[w] \in {"some", "try_some"} => \E k \in 1..Len(returned) : returned[k] = witem[w]

\* three items have been handed out, the first to a steal of one handle and
\* a later one to a try_steal of the other handle
C24_TwoHandlesShareThreeItems ==
  /\ client = "queue"
  /\ Len(returned) = MaxWork /\ work_queue = <<>>
  /\ wpc[1] = "some" /\ witem[1].idx = 0
  /\ wpc[2] = "try_some" /\ witem[2].idx = MaxWork - 1

\* C30: under every interleaving of close() with a concurrent steal(), a
\* steal on a queue that is or becomes closed returns in finite time: it
\* returns None only when the queue is closed and empty, and once close()
\* has returned no steal is left asleep in the wait, where nothing will
\* notify it any more
C30_StealReturnsAfterClose ==
  client = "queue" =>
    \A w \in Threads :
      /\ wpc[w] = "none" => (closed /\ work_queue = <<>>)
      /\ ~(closed /\ cpc = "idle" /\ wpc[w] = "sleeping")

\* C23: when an expected uncompressed size is given to LzmaWriter, finish
\* fails with InvalidInput if the number of bytes accepted differs from it,
\* and a write that would exceed it fails with InvalidInput without changing
\* the accepted-byte counter and without encoding any byte
C23_SizeMismatchRejected ==
  (client = "lzma" /\ coder.expected_uncompressed_size # NoExpected) =>
    /\ (coder.call = "finish"
        /\ coder.before_size # coder.expected_uncompressed_size) =>
         (coder.ret = "InvalidInput" /\ ~coder.end_marker)
    /\ (coder.call = "write"
        /\ coder.before_size + coder.len > coder.expected_uncompressed_size) =>
         /\ coder.ret = "InvalidInput"
         /\ coder.current_uncompressed_size = coder.before_size
         /\ coder.encoded = coder.before_encoded

\* a write that would go one byte past the expected size has been refused
\* after bytes had been accepted
C23_OversizeWriteRefused ==
  /\ client = "lzma" /\ coder.call = "write" /\ coder.ret = "InvalidInput"
  /\ coder.before_size > 0
  /\ coder.before_size + coder.len = coder.expected_uncompressed_size + 1
  /\ coder.current_uncompressed_size = coder.before_size

(***************************************************************************)
(* Check verification and concatenated streams of the XZ readers           *)
(***************************************************************************)
\* the check field of the block is not the check computed over its payload
stored_check_differs(block) ==
  \E c \in CheckTypes \ {"None"} : block.check = wrong_check_of(c, block.data)

\* the number of payload bytes of the first i blocks
RECURSIVE payload_through(_, _)
payload_through(blocks, i) ==
  IF i = 0 THEN 0 ELSE payload_through(blocks, i - 1) + Len(blocks[i].data)

\* the payloads of the first i blocks, concatenated
RECURSIVE payloads_of(_, _)
payloads_of(blocks, i) ==
  IF i = 0 THEN <<>> ELSE payloads_of(blocks, i - 1) \o blocks[i].data

\* block i was decoded to its end and a later call of read came back
read_past(r, i) ==
  LET through == payload_through(blocks_of(r.inner), i)
  IN  Len(r.out) > through \/ (Len(r.out) = through /\ r.ret = "Ok(0)")

\* C21: XzReader and XzReaderMt both return an error for a block whose stored
\* check value differs from the check computed over the bytes decoded from
\* that block: no read gets past such a block unless a read has failed.
C21_MismatchIsError ==
  client = "xzread" =>
    \A i \in 1..Len(blocks_of(xz.inner)) :
      (stored_check_differs(blocks_of(xz.inner)[i]) /\ read_past(xz, i)) => xz.failed

\* the input is two streams without a wrong check, the stream padding between
\* them a multiple of four bytes
two_valid_streams(inner) ==
  /\ Len(SelectSeq(inner, LAMBDA tok : tok.t = "footer")) = 2
  /\ (Len(SelectSeq(inner, LAMBDA tok : tok.t = "byte" /\ tok.v = 0)) - 2) % 4 = 0
  /\ \A i \in 1..Len(blocks_of(inner)) : ~stored_check_differs(blocks_of(inner)[i])

\* C22: with allow_multiple_streams, XzReader skips the stream padding behind
\* the footer of a stream, recognises the magic bytes of a following stream
\* and goes on with its blocks: over two concatenated valid streams no read
\* fails, and at the end the payloads of both streams have been returned.
C22_ConcatenatedStreamsDecode ==
  (/\ client = "xzread" /\ xz.kind = "XzReader"
   /\ xz.allow_multiple_streams
   /\ two_valid_streams(xz.inner)) =>
    /\ ~xz.failed
    /\ xz.ret = "Ok(0)" =>
         xz.out = payloads_of(blocks_of(xz.inner), Len(blocks_of(xz.inner)))

\* C38: after any sequence of updates of the coder state, is_literal holds
\* exactly when the most recent update was update_literal or no update has
\* been applied since State::new or reset.
C38_LiteralIffLastLiteral ==
  client = "state" =>
    (is_literal(coder.state) <=>
       (coder.ops = <<>> \/ coder.ops[Len(coder.ops)] = "literal"))

\* a literal after a rep after a literal: is_literal again, out of LIT_LONGREP
\* or LIT_SHORTREP
C38_LiteralAfterRep ==
  /\ client = "state"
  /\ Len(coder.ops) >= 3
  /\ coder.ops[Len(coder.ops)] = "literal"
  /\ coder.ops[Len(coder.ops) - 1] \in {"long_rep", "short_rep"}
  /\ coder.ops[Len(coder.ops) - 2] = "literal"
  /\ is_literal(coder.state)
  /\ coder.state \in {LIT_LONGREP - 3, LIT_SHORTREP - 3}

\* C32: for every dict_size in [4 KiB, 512 MiB] encode_dict_size yields a byte
\* that decode_dict_size takes back to a size >= dict_size (the size in the
\* member header is never smaller than the dictionary the encoder uses), and
\* to dict_size itself when the format represents dict_size exactly.
C32_AdvertisedCoversUsed ==
  (/\ client = "dictcodec" /\ lzip.pc # "size"
   /\ ~dict_size_out_of_range(lzip.dict_size)) =>
    /\ lzip.encoded.ok
    /\ lzip.pc = "decoded" =>
         /\ lzip.result.ok
         /\ lzip.result.dict_size >= lzip.dict_size
         /\ lzip.dict_size \in ExactSizes => lzip.result.dict_size = lzip.dict_size

(***************************************************************************)
(* The counter of active workers                                           *)
(***************************************************************************)
\* the workers between the fetch_add behind a successful steal and the
\* fetch_sub of the path they leave the loop body on
counted_workers == {w \in Threads : wpc[w] \in {"work", "send", "sent"}}

\* C37: the shared counter of active workers always lies between 0 and the
\* number of spawned workers, and every increment that follows a successful
\* steal is matched by exactly one decrement on each path out of the loop body
\* (result sent, send failed, processing error): the counter is at every
\* moment the number of workers inside the body.
C37_ActiveCounterBalanced ==
  /\ 0 <= active_workers
  /\ active_workers <= spawned
  /\ active_workers = Cardinality(counted_workers)

\* two workers were spawned, one left the loop after a processing error, the
\* other after its last result went out, a result was returned, and the
\* counter is back at 0
C37_AllPathsTaken ==
  /\ spawned >= 2
  /\ stored # <<>>
  /\ \E w \in Threads : wpc[w] = "exited" /\ witem[w] # NoItem
                         /\ WorkerErr(witem[w].idx) \notin {stored[i] : i \in 1..Len(stored)}
  /\ returned # <<>>
  /\ active_workers = 0

(***************************************************************************)
(* The index XzWriter::finish writes                                       *)
(***************************************************************************)
\* the number of block headers in the output
block_headers_written(out) == Len(SelectSeq(out, LAMBDA s : s.seg = "block_header"))

RECURSIVE uncompressed_sum(_)
uncompressed_sum(records) ==
  IF records = <<>> THEN 0
  ELSE Head(records).uncompressed_size + uncompressed_sum(Tail(records))

\* C35: when XzWriter::finish has written the index, the index holds one
\* record per block header written, the uncompressed sizes of its records sum
\* to the number of bytes write accepted, and there is no record for a block
\* that was never started.
C35_IndexMatchesBlocks ==
  (client = "xz" /\ cpc = "xz_done") =>
    /\ Len(xz.index_records) = block_headers_written(xz.out)
    /\ uncompressed_sum(xz.index_records) = accepted

(***************************************************************************)
(* The members LzipWriter closes                                           *)
(***************************************************************************)
RECURSIVE data_size_sum(_)
data_size_sum(trailers) ==
  IF trailers = <<>> THEN 0 ELSE Head(trailers) + data_size_sum(Tail(trailers))

\* C36: LzipWriter closes a member only when it holds between 1 and the
\* effective member size bytes, but for one empty member when no input at all
\* was written, and the data sizes of the member trailers sum to the number of
\* bytes write accepted (with the bytes of the member still open).
C36_MembersWithinSize ==
  client = "lzipwriter" =>
    /\ \A i \in 1..Len(lzip.trailers) :
         \/ /\ lzip.trailers[i] >= 1
            /\ lzip.member_size # NoneSize => lzip.trailers[i] <= lzip.member_size
         \/ lzip.trailers = <<0>> /\ lzip.accepted = 0 /\ lzip.finished
    /\ data_size_sum(lzip.trailers)
         + (IF lzip.header_written THEN lzip.uncompressed_size ELSE 0) = lzip.accepted

\* finish closed a last member that is not full behind two full ones
C36_TwoFullMembersAndRest ==
  /\ client = "lzipwriter" /\ lzip.finished
  /\ lzip.member_size = MaxUnitSize
  /\ lzip.trailers = <<MaxUnitSize, MaxUnitSize, 1>>

\* the chunks of a work unit: its data without the end marker pushed at its end
RECURSIVE chunks_of_units(_)
chunks_of_units(us) ==
  IF us = <<>> THEN <<>>
  ELSE SubSeq(us[1].data, 1, Len(us[1].data) - 1) \o chunks_of_units(Tail(us))

\* the input is chunks followed by one 0x00 terminator
well_formed(in) ==
  /\ in.end /\ ~in.cut
  /\ \A k \in 1..Len(in.controls) : ~is_invalid_control(in.controls[k])

\* C31: for a well-formed LZMA2 stream every work unit Lzma2ReaderMt dispatches
\* is a complete LZMA2 stream: its last byte of control is the only 0x00 in it,
\* every unit but the first begins with a chunk of control 0x01 or >= 0xE0, the
\* units carry the sequence numbers 0, 1, 2, ..., and their chunks in that
\* order, followed by those of the unit being filled, are the chunks read so
\* far, all chunks of the input once the reader is Draining
C31_UnitsAreCompleteStreams ==
  (client = "lzma2split" /\ well_formed(lzma2.inner)) =>
    /\ \A i \in 1..Len(lzma2.units) :
         LET data == lzma2.units[i].data IN
           /\ lzma2.units[i].seq = i - 1
           /\ Len(data) >= 1
           /\ data[Len(data)] = 0
           /\ \A k \in 1..(Len(data) - 1) : data[k] # 0
           /\ i > 1 => (data[1] = 1 \/ data[1] >= 224)
    /\ chunks_of_units(lzma2.units) \o lzma2.current_work_unit
         = SubSeq(lzma2.inner.controls, 1, lzma2.pos)
    /\ lzma2.state = "Draining" =>
         /\ lzma2.current_work_unit = <<>>
         /\ chunks_of_units(lzma2.units) = lzma2.inner.controls

\* a well-formed input of three chunks read to its end in two units, the
\* second chunk staying in the unit of the first
C31_SplitInTwo ==
  /\ client = "lzma2split" /\ well_formed(lzma2.inner)
  /\ lzma2.state = "Draining"
  /\ Len(lzma2.inner.controls) = 3
  /\ Len(lzma2.units) = 2
  /\ Len(lzma2.units[1].data) = 3

\* the place of the first control byte of 0x03..=0x7F in the input of
\* Lzma2ReaderMt, 0 when there is none
first_invalid_control ==
  LET bad == {k \in 1..Len(lzma2.inner) : lzma2.inner[k].control \in 3..127}
  IN  IF bad = {} THEN 0 ELSE CHOOSE k \in bad : \A j \in bad : k <= j

\* Lzma2ReaderMt has read the first invalid control byte of its input
invalid_control_read ==
  /\ client = "lzma2reader"
  /\ first_invalid_control > 0
  /\ Len(chunks_of(lzma2.inner)) - remaining >= first_invalid_control

\* C34 (as stated): once Lzma2ReaderMt has read a control byte of 0x03..=0x7F,
\* the error its read calls return is the InvalidData error
C34_ReportedAsInvalidData ==
  (invalid_control_read /\ surfaced # {}) => InvalidDataErr \in surfaced

\* C34: once Lzma2ReaderMt has read a control byte of 0x03..=0x7F its state is
\* Error; a read call in progress is at the top of the loop or in the Error arm,
\* never waiting for a result, and no call returns Ok(None); the error returned
\* is the InvalidData error unless a worker had stored the error of an earlier
\* unit, which is then the one returned; and every unit delivered lies wholly
\* in front of the invalid control byte
C34_InvalidControlEndsInError ==
  invalid_control_read =>
    /\ state = "Error"
    /\ op = "read" => cpc \in {"gr_top", "gr_match"}
    /\ lastRet.kind # "none"
    /\ surfaced # {} =>
         \/ InvalidDataErr \in surfaced
         \/ stored # <<>> /\ stored[1] \in surfaced
    /\ \A i \in 1..Len(returned) :
         returned[i].off + returned[i].len < first_invalid_control

\* a unit in front of the invalid control byte has been delivered and a later
\* read call has returned the InvalidData error
C34_UnitThenInvalidData ==
  /\ invalid_control_read
  /\ Len(returned) >= 1
  /\ lastRet.kind = "err"
  /\ lastRet.err = InvalidDataErr

\* C33: the encoder mirrors the decoder: whenever the decoder has decoded every
\* symbol the encoder has emitted (literals, matches, short reps, long reps of
\* reps[0..3] of length >= 2), both hold the same state and the same reps, and
\* the decoder has seen the length the encoder coded
C33_EncoderMirrorsDecoder ==
  (client = "mirror" /\ coder.pc = "encode") =>
    /\ coder.enc.state = coder.dec.state
    /\ coder.enc.reps = coder.dec.reps
    /\ coder.symbols > 0 => coder.dlen = coder.len

\* three symbols coded and decoded, the last a long rep of reps[3] after two
\* matches of different distances beyond the distance slots without footer
C33_LongRepAfterMatches ==
  /\ client = "mirror" /\ coder.pc = "encode"
  /\ coder.symbols = 3
  /\ coder.back = 3 /\ coder.len >= 2
  /\ coder.dec.state = NONLIT_REP
  /\ coder.dec.reps[1] = 0
  /\ coder.dec.reps[2] > 127
  /\ coder.dec.reps[3] > 127
  /\ coder.dec.reps[2] # coder.dec.reps[3]
====
